---- MODULE Spec2Model ----
(***************************************************************************)
(* Model of the PlaidML device-execution runtime and lowering layer:       *)
(*   - pmlc/rt/level_zero/level_zero_invocation.cc  (Invocation runtime)   *)
(*   - pmlc/conversion/comp_to_llvm/comp_to_ocl.cc  (driver-A lowering)    *)
(*   - pmlc/conversion/comp_to_llvm/comp_to_vulkan.cc (driver-B lowering)  *)
(* The host issues runtime calls one at a time; the device executes the    *)
(* submitted commands, gated by their dependency events.                   *)
(***************************************************************************)
EXTENDS Integers, Sequences, FiniteSets, TLC

\* ------------------------------------------------------------------ bounds
MaxMem == 1
MaxKernels == 1
MaxKernelEvents == 3
MaxMemEvents == 2
MaxOrderEvents == 2
MaxDeps == 1
MaxKernelDeps == 1
MaxPoolTail == 1
MaxOclArgs == 2
MaxOclDeps == 2
MaxDim == 2
MaxVkArgs == 2
MaxUnit == 3
MaxRuns == 2
MaxTail == 2
MaxRetire == 2
MaxLifeEvents == 2
MaxWaitEvents == 2
MaxFailUnit == 2
MaxFlushEvents == 2

\* --------------------------------------------------------------- constants
\* eventPool.InitEventPool(device->getLevelZeroContext(), 600)
EventPoolCapacityOff == 600 + 1
EventPoolCapacity == 600
SpecifiedPoolSlots == 600

VARIABLES
  pc,          \* where the host thread is: "idle", inside a blocking call, teardown, ...
  waiting,     \* native event handles the host is synchronizing on (LevelZeroEvent::wait)
  memObjs,     \* the LevelZeroMemory objects created so far: byte size of object 1, 2, ...
  memories,    \* LevelZeroInvocation::memories, the retired list
  released,    \* LevelZeroMemory objects that were deleted
  memData,     \* contents of each device buffer
  hostBuf,     \* contents of the host buffers
  kernels,     \* LevelZeroKernel objects: args and pending dependencies
  events,      \* LevelZeroInvocation::events, the owned LevelZeroEvent objects
  poolUsed,    \* event-pool slots in use
  signaled,    \* native events that have completed
  cmdList,     \* the command list (appended, not yet submitted)
  devQueue,    \* commands submitted to the command queue and not yet complete
  lastGiven,   \* history: the handles of the events the caller named in the latest enqueue
  addLog,      \* history: per kernel, handles added by addDependency since its last enqueue
  oclOp,       \* lowering: the abstract operation being lowered
  oclOut,      \* lowering: operations emitted by the rewriter for it, in order
  oclRes,      \* lowering: "pending", "success", "failure", ...
  pass,        \* the lowering pass that runs: "ocl" (driver A) or "vulkan" (driver B)
  unit,        \* the abstract operations of the compilation unit, in source order
  lowered,     \* per operation already rewritten, the operations that replaced it
  scheduleFuncNum,     \* driver B: number of ScheduleFunc ops counted by the pre-pass walk
  pScheduleFuncIndex,  \* driver B: *pScheduleFuncIndex, the step counter
  pBufferMap,          \* driver B: *pBufferMap, buffer value -> <<step, binding>>
  symbols      \* names of the function declarations in the module body, in order

rtVars == <<pc, waiting, memObjs, memories, released, memData, hostBuf, kernels,
            events, poolUsed, signaled, cmdList, devQueue, lastGiven, addLog>>
passVars == <<pass, unit, lowered, scheduleFuncNum, pScheduleFuncIndex, pBufferMap, symbols>>
oclVars == <<oclOp, oclOut, oclRes, passVars>>
vars == <<pc, waiting, memObjs, memories, released, memData, hostBuf, kernels,
          events, poolUsed, signaled, cmdList, devQueue, lastGiven, addLog, oclOp, oclOut, oclRes,
          pass, unit, lowered, scheduleFuncNum, pScheduleFuncIndex, pBufferMap, symbols>>

\* ------------------------------------------------------------------ helpers
Range(s) == {s[i] : i \in 1..Len(s)}

SeqsUpTo(S, n) == UNION {[1..k -> S] : k \in 0..n}

Garbage == <<"garbage">>

\* a live LevelZeroMemory: created, not retired, not deleted
Live(m) == m \in 1..Len(memObjs) /\ m \notin Range(memories) /\ m \notin released

\* ------------------------------------------------------------- event pool
PoolExhausted == \A i \in 1..EventPoolCapacity : i \in poolUsed

FindIndex == CHOOSE i \in 1..EventPoolCapacity :
               i \notin poolUsed /\ \A j \in 1..(i - 1) : j \in poolUsed

\* std::transform(deps..., event->getEvent())
getEventsDropped(deps) == <<>>
getEvents(deps) == [i \in 1..Len(deps) |-> events[deps[i]].event]

\* LevelZeroInvocation::wrapEvent
wrapEventOnly(event, kind, name) == <<[event |-> event, kind |-> kind, name |-> name]>>
wrapEvent(event, kind, name) == Append(events, [event |-> event, kind |-> kind, name |-> name])

NoCmd == [op |-> "none", mem |-> 0, host |-> "none", kern |-> 0, deps |-> <<>>, signal |-> 0]

\* ---------------------------------------------------------------- initial
RtInit ==
  /\ pc = "idle"
  /\ waiting = <<>>
  /\ memObjs = <<>>
  /\ memories = <<>>
  /\ released = {}
  /\ memData = [m \in 1..MaxMem |-> <<"none">>]
  /\ hostBuf = [b \in {"A", "R"} |-> IF b = "A" THEN <<"A">> ELSE <<"old">>]
  /\ kernels = <<>>
  /\ events = <<>>
  /\ poolUsed = {}
  /\ signaled = {}
  /\ cmdList = <<>>
  /\ devQueue = <<>>
  /\ lastGiven = <<>>
  /\ addLog = <<>>

\* no pass has run: the pattern state as its constructor leaves it
PassIdle ==
  /\ pass = "none"
  /\ unit = <<>>
  /\ lowered = <<>>
  /\ scheduleFuncNum = 0
  /\ pScheduleFuncIndex = 0
  /\ pBufferMap = <<>>
  /\ symbols = <<>>

OclIdle ==
  /\ oclOp = [kind |-> "none"]
  /\ oclOut = <<>>
  /\ oclRes = "pending"
  /\ PassIdle

Init == RtInit /\ OclIdle

\* ------------------------------------------------------------------ memory
\* LevelZeroInvocation::allocateMemory
allocateMemory(bytes) ==
  /\ pc = "idle"
  /\ Len(memObjs) < MaxMem
  /\ memObjs' = Append(memObjs, bytes)
  /\ memData' = [memData EXCEPT ![Len(memObjs) + 1] = Garbage]
  /\ UNCHANGED <<pc, waiting, memories, released, hostBuf, kernels, events, poolUsed,
                 signaled, cmdList, devQueue, lastGiven, addLog>>

\* LevelZeroInvocation::deallocateMemory
deallocateMemoryEager(memory) ==
  /\ pc = "idle"
  /\ Live(memory)
  /\ released' = released \cup {memory}
  /\ UNCHANGED <<pc, waiting, memObjs, memories, memData, hostBuf, kernels, events,
                 poolUsed, signaled, cmdList, devQueue, lastGiven, addLog>>

deallocateMemory(memory) ==
  /\ pc = "idle"
  /\ memory \in 1..Len(memObjs)
  /\ memories' = Append(memories, memory)
  /\ UNCHANGED <<pc, waiting, memObjs, released, memData, hostBuf, kernels, events,
                 poolUsed, signaled, cmdList, devQueue, lastGiven, addLog>>

\* ----------------------------------------------------------------- enqueue
\* eventPool.create_event + lzu::append_* + wrapEvent, or the pool's resource fault
AppendCmdSelfDep(call, cmd, kind, name, given) ==
  IF PoolExhausted
  THEN /\ pc' = "fault"
       /\ UNCHANGED <<waiting, poolUsed, cmdList, events, lastGiven>>
  ELSE /\ poolUsed' = poolUsed \cup {FindIndex}
       /\ cmdList' = Append(cmdList, [cmd EXCEPT !.signal = FindIndex,
                                                 !.deps = Append(cmd.deps, FindIndex)])
       /\ events' = wrapEvent(FindIndex, kind, name)
       /\ lastGiven' = given
       /\ UNCHANGED <<pc, waiting>>

AppendCmd(call, cmd, kind, name, given) ==
  IF PoolExhausted
  THEN /\ pc' = "fault"
       /\ UNCHANGED <<waiting, poolUsed, cmdList, events, lastGiven>>
  ELSE /\ poolUsed' = poolUsed \cup {FindIndex}
       /\ cmdList' = Append(cmdList, [cmd EXCEPT !.signal = FindIndex])
       /\ events' = wrapEvent(FindIndex, kind, name)
       /\ lastGiven' = given
       /\ UNCHANGED <<pc, waiting>>

\* the handles of the events the caller names
Given(deps) == [i \in 1..Len(deps) |-> events[deps[i]].event]

\* LevelZeroInvocation::enqueueRead, LevelZeroMemory::enqueueRead
enqueueRead(src, dst, deps) ==
  /\ pc = "idle"
  /\ Live(src)
  /\ AppendCmd("enqueueRead",
               [NoCmd EXCEPT !.op = "read", !.mem = src, !.host = dst,
                             !.deps = getEvents(deps)],
               "Read", "read", Given(deps))
  /\ UNCHANGED <<memObjs, memories, released, memData, hostBuf, kernels, signaled,
                 devQueue, addLog>>

\* LevelZeroInvocation::enqueueWrite, LevelZeroMemory::enqueueWrite
enqueueWrite(dst, src, deps) ==
  /\ pc = "idle"
  /\ Live(dst)
  /\ AppendCmd("enqueueWrite",
               [NoCmd EXCEPT !.op = "write", !.mem = dst, !.host = src,
                             !.deps = getEvents(deps)],
               "Write", "write", Given(deps))
  /\ UNCHANGED <<memObjs, memories, released, memData, hostBuf, kernels, signaled,
                 devQueue, addLog>>

\* LevelZeroInvocation::enqueueBarrier
enqueueBarrierBlocking(deps) ==
  /\ pc = "idle"
  /\ ~PoolExhausted
  /\ poolUsed' = poolUsed \cup {FindIndex}
  /\ cmdList' = Append(cmdList, [NoCmd EXCEPT !.op = "barrier", !.deps = getEvents(deps),
                                              !.signal = FindIndex])
  /\ events' = wrapEvent(FindIndex, "Barrier", "barrier")
  /\ lastGiven' = Given(deps)
  /\ pc' = "enqueueBarrier"
  /\ waiting' = <<FindIndex>>
  /\ UNCHANGED <<memObjs, memories, released, memData, hostBuf, kernels, signaled,
                 devQueue, addLog>>

enqueueBarrier(deps) ==
  /\ pc = "idle"
  /\ AppendCmd("enqueueBarrier",
               [NoCmd EXCEPT !.op = "barrier", !.deps = getEvents(deps)],
               "Barrier", "barrier", Given(deps))
  /\ UNCHANGED <<memObjs, memories, released, memData, hostBuf, kernels, signaled,
                 devQueue, addLog>>

\* ----------------------------------------------------------------- kernels
\* LevelZeroInvocation::createKernelFromIL, LevelZeroKernel::LevelZeroKernel
createKernelFromIL(name) ==
  /\ pc = "idle"
  /\ Len(kernels) < MaxKernels
  /\ kernels' = Append(kernels, [name |-> name, arg |-> 0, dependencies |-> <<>>])
  /\ addLog' = Append(addLog, <<>>)
  /\ UNCHANGED <<pc, waiting, memObjs, memories, released, memData, hostBuf, events,
                 poolUsed, signaled, cmdList, devQueue, lastGiven>>

\* LevelZeroKernel::setArg (argument index 0)
setArg(k, memory) ==
  /\ pc = "idle"
  /\ k \in 1..Len(kernels)
  /\ Live(memory)
  /\ kernels' = [kernels EXCEPT ![k].arg = memory]
  /\ UNCHANGED <<pc, waiting, memObjs, memories, released, memData, hostBuf, events,
                 poolUsed, signaled, cmdList, devQueue, lastGiven, addLog>>

\* LevelZeroKernel::addDependency
addDependency(k, e) ==
  /\ pc = "idle"
  /\ k \in 1..Len(kernels)
  /\ e \in 1..Len(events)
  /\ kernels' = [kernels EXCEPT ![k].dependencies = Append(@, events[e].event)]
  /\ addLog' = [addLog EXCEPT ![k] = Append(@, events[e].event)]
  /\ UNCHANGED <<pc, waiting, memObjs, memories, released, memData, hostBuf, events,
                 poolUsed, signaled, cmdList, devQueue, lastGiven>>

\* LevelZeroKernel::enqueue: the dependencies handed to append_launch_function ...
LaunchDependenciesNone(k) == <<>>
LaunchDependencies(k) == kernels[k].dependencies

\* ... and dependencies.clear()
ClearDependenciesKept(k) == kernels[k]
ClearDependencies(k) == [kernels[k] EXCEPT !.dependencies = <<>>]

\* LevelZeroInvocation::enqueueKernel, LevelZeroKernel::enqueue
enqueueKernel(k) ==
  /\ pc = "idle"
  /\ k \in 1..Len(kernels)
  /\ AppendCmd("enqueueKernel",
               [NoCmd EXCEPT !.op = "kernel", !.kern = k, !.mem = kernels[k].arg,
                             !.deps = LaunchDependencies(k)],
               "Kernel", kernels[k].name, addLog[k])
  /\ IF PoolExhausted
     THEN UNCHANGED <<kernels, addLog>>
     ELSE /\ kernels' = [kernels EXCEPT ![k] = ClearDependencies(k)]
          /\ addLog' = [addLog EXCEPT ![k] = <<>>]
  /\ UNCHANGED <<memObjs, memories, released, memData, hostBuf, signaled, devQueue>>

\* --------------------------------------------------------- flush and finish
\* LevelZeroInvocation::flush: close_command_list, execute_command_lists
flush ==
  /\ pc = "idle"
  /\ pc' = "flush"
  /\ devQueue' = devQueue \o [i \in 1..Len(cmdList) |->
                                [cmd |-> cmdList[i], st |-> "submitted", cycle |-> Len(events)]]
  /\ UNCHANGED <<waiting, memObjs, memories, released, memData, hostBuf, kernels, events,
                 poolUsed, signaled, cmdList, lastGiven, addLog>>

\* lzu::synchronize(queue, UINT64_MAX): returns once the queue has drained
QueueDrained == devQueue = <<>>

\* LevelZeroInvocation::flush: synchronize, reset_command_list
flushReturnNoSync ==
  /\ pc = "flush"
  /\ cmdList' = <<>>
  /\ pc' = "idle"
  /\ UNCHANGED <<waiting, memObjs, memories, released, memData, hostBuf, kernels, events,
                 poolUsed, signaled, devQueue, lastGiven, addLog>>

flushReturn ==
  /\ pc = "flush"
  /\ QueueDrained
  /\ cmdList' = <<>>
  /\ pc' = "idle"
  /\ UNCHANGED <<waiting, memObjs, memories, released, memData, hostBuf, kernels, events,
                 poolUsed, signaled, devQueue, lastGiven, addLog>>

\* LevelZeroInvocation::finish: enters lzu::synchronize
finishSubmitting ==
  /\ pc = "idle"
  /\ pc' = "finish"
  /\ devQueue' = devQueue \o [i \in 1..Len(cmdList) |->
                                [cmd |-> cmdList[i], st |-> "submitted", cycle |-> Len(events)]]
  /\ UNCHANGED <<waiting, memObjs, memories, released, memData, hostBuf, kernels, events,
                 poolUsed, signaled, cmdList, lastGiven, addLog>>

finish ==
  /\ pc = "idle"
  /\ pc' = "finish"
  /\ UNCHANGED <<waiting, memObjs, memories, released, memData, hostBuf, kernels, events,
                 poolUsed, signaled, cmdList, devQueue, lastGiven, addLog>>

\* LevelZeroInvocation::finish: lzu::synchronize returns
finishReturn ==
  /\ pc = "finish"
  /\ QueueDrained
  /\ pc' = "idle"
  /\ UNCHANGED <<waiting, memObjs, memories, released, memData, hostBuf, kernels, events,
                 poolUsed, signaled, cmdList, devQueue, lastGiven, addLog>>

\* LevelZeroEvent::wait: zeEventHostSynchronize(e, UINT64_MAX) on every event
wait(evs) ==
  /\ pc = "idle"
  /\ pc' = "wait"
  /\ waiting' = getEvents(evs)
  /\ UNCHANGED <<memObjs, memories, released, memData, hostBuf, kernels, events, poolUsed,
                 signaled, cmdList, devQueue, lastGiven, addLog>>

waitReturnEarly ==
  /\ pc = "wait"
  /\ pc' = "idle"
  /\ waiting' = <<>>
  /\ UNCHANGED <<memObjs, memories, released, memData, hostBuf, kernels, events, poolUsed,
                 signaled, cmdList, devQueue, lastGiven, addLog>>

waitReturn ==
  /\ pc = "wait"
  /\ Range(waiting) \subseteq signaled
  /\ pc' = "idle"
  /\ waiting' = <<>>
  /\ UNCHANGED <<memObjs, memories, released, memData, hostBuf, kernels, events, poolUsed,
                 signaled, cmdList, devQueue, lastGiven, addLog>>

\* ---------------------------------------------------------------- teardown
\* LevelZeroInvocation::~LevelZeroInvocation: the call of finish()
dtorBeginNoFinish ==
  /\ pc = "idle"
  /\ pc' = "dtor_mem"
  /\ UNCHANGED <<waiting, memObjs, memories, released, memData, hostBuf, kernels, events,
                 poolUsed, signaled, cmdList, devQueue, lastGiven, addLog>>

dtorBegin ==
  /\ pc = "idle"
  /\ pc' = "dtor_finish"
  /\ UNCHANGED <<waiting, memObjs, memories, released, memData, hostBuf, kernels, events,
                 poolUsed, signaled, cmdList, devQueue, lastGiven, addLog>>

\* ~LevelZeroInvocation: finish() returns
dtorFinishReturn ==
  /\ pc = "dtor_finish"
  /\ QueueDrained
  /\ pc' = "dtor_mem"
  /\ UNCHANGED <<waiting, memObjs, memories, released, memData, hostBuf, kernels, events,
                 poolUsed, signaled, cmdList, devQueue, lastGiven, addLog>>

\* the retired list names an object twice: the loop deletes it a second time
DoubleDelete == \E i, j \in 1..Len(memories) : i < j /\ memories[i] = memories[j]

\* ~LevelZeroInvocation: delete memories[i] for every retired object; the
\* delete of an object that was deleted already is undefined: the teardown
\* goes on or the program ends in a fault
dtorDeleteMemories ==
  /\ pc = "dtor_mem"
  /\ released' = released \cup Range(memories)
  /\ pc' \in (IF DoubleDelete THEN {"dtor_events", "fault"} ELSE {"dtor_events"})
  /\ UNCHANGED <<waiting, memObjs, memories, memData, hostBuf, kernels, events, poolUsed,
                 signaled, cmdList, devQueue, lastGiven, addLog>>

\* ~LevelZeroInvocation: eventPool.destroy_event for every owned event
dtorDestroyEvents ==
  /\ pc = "dtor_events"
  /\ poolUsed' = poolUsed \ {events[i].event : i \in 1..Len(events)}
  /\ pc' = "destroyed"
  /\ UNCHANGED <<waiting, memObjs, memories, released, memData, hostBuf, kernels, events,
                 signaled, cmdList, devQueue, lastGiven, addLog>>

\* ------------------------------------------------------------------ device
RemoveAt(s, i) == [j \in 1..(Len(s) - 1) |-> IF j < i THEN s[j] ELSE s[j + 1]]

\* a submitted command becomes eligible once all its wait events are signaled
deviceStart(i) ==
  /\ i \in 1..Len(devQueue)
  /\ devQueue[i].st = "submitted"
  /\ Range(devQueue[i].cmd.deps) \subseteq signaled
  /\ devQueue' = [devQueue EXCEPT ![i].st = "running"]
  /\ UNCHANGED <<pc, waiting, memObjs, memories, released, memData, hostBuf, kernels,
                 events, poolUsed, signaled, cmdList, lastGiven, addLog>>

\* what a completing command does to device and host memory
MemAfter(c) ==
  IF c.op = "write" /\ c.mem \notin released
  THEN [memData EXCEPT ![c.mem] = hostBuf[c.host]]
  ELSE IF c.op = "kernel" /\ c.mem # 0 /\ c.mem \notin released
  THEN [memData EXCEPT ![c.mem] = <<"K">> \o @]
  ELSE memData

HostAfter(c) ==
  IF c.op = "read"
  THEN [hostBuf EXCEPT ![c.host] = IF c.mem \in released THEN Garbage ELSE memData[c.mem]]
  ELSE hostBuf

\* a running command completes: its effect lands and its event is signaled
deviceComplete(i) ==
  /\ i \in 1..Len(devQueue)
  /\ devQueue[i].st = "running"
  /\ memData' = MemAfter(devQueue[i].cmd)
  /\ hostBuf' = HostAfter(devQueue[i].cmd)
  /\ signaled' = signaled \cup {devQueue[i].cmd.signal}
  /\ devQueue' = RemoveAt(devQueue, i)
  /\ UNCHANGED <<pc, waiting, memObjs, memories, released, kernels, events, poolUsed,
                 cmdList, lastGiven, addLog>>

\* ------------------------------------------------------------ specification
AllocSizes == {1024}

DepChoices(n) == SeqsUpTo(1..Len(events), n)

\* Kernel dependency handling: barriers and earlier launches supply events;
\* kernels are created, given dependencies (each event at most once per
\* launch) and launched, repeatedly.
NextKernel ==
  \/ Len(events) < MaxKernelEvents /\ enqueueBarrier(<<>>) /\ UNCHANGED oclVars
  \/ createKernelFromIL("k") /\ UNCHANGED oclVars
  \/ \E k \in 1..Len(kernels), e \in 1..Len(events) :
        /\ Len(kernels[k].dependencies) < MaxKernelDeps
        /\ events[e].event \notin Range(kernels[k].dependencies)
        /\ addDependency(k, e) /\ UNCHANGED oclVars
  \/ \E k \in 1..Len(kernels) : Len(events) < MaxKernelEvents /\ enqueueKernel(k) /\ UNCHANGED oclVars

SpecKernel == Init /\ [][NextKernel]_vars

\* Memory lifecycle: allocation, copies, retirement and teardown.
NextMem ==
  \/ \E bytes \in AllocSizes : allocateMemory(bytes) /\ UNCHANGED oclVars
  \/ \E m \in 1..Len(memObjs) : Live(m) /\ deallocateMemory(m) /\ UNCHANGED oclVars
  \/ \E m \in 1..Len(memObjs), deps \in DepChoices(MaxDeps) :
        Len(events) < MaxMemEvents /\ enqueueRead(m, "R", deps) /\ UNCHANGED oclVars
  \/ \E m \in 1..Len(memObjs), deps \in DepChoices(MaxDeps) :
        Len(events) < MaxMemEvents /\ enqueueWrite(m, "A", deps) /\ UNCHANGED oclVars
  \/ flush /\ UNCHANGED oclVars
  \/ flushReturn /\ UNCHANGED oclVars
  \/ dtorBegin /\ UNCHANGED oclVars
  \/ dtorFinishReturn /\ UNCHANGED oclVars
  \/ dtorDeleteMemories /\ UNCHANGED oclVars
  \/ dtorDestroyEvents /\ UNCHANGED oclVars
  \/ \E i \in 1..Len(devQueue) : deviceStart(i) /\ UNCHANGED oclVars
  \/ \E i \in 1..Len(devQueue) : deviceComplete(i) /\ UNCHANGED oclVars

SpecMem == Init /\ [][NextMem]_vars

\* Command ordering and host synchronization, on an invocation that has
\* allocated one buffer and built one kernel: every enqueue kind, flush,
\* finish and wait.
InitOrder ==
  /\ pc = "idle"
  /\ waiting = <<>>
  /\ memObjs = <<1024>>
  /\ memories = <<>>
  /\ released = {}
  /\ memData = [m \in 1..MaxMem |-> IF m = 1 THEN Garbage ELSE <<"none">>]
  /\ hostBuf = [b \in {"A", "R"} |-> IF b = "A" THEN <<"A">> ELSE <<"old">>]
  /\ kernels = <<[name |-> "k", arg |-> 0, dependencies |-> <<>>]>>
  /\ events = <<>>
  /\ poolUsed = {}
  /\ signaled = {}
  /\ cmdList = <<>>
  /\ devQueue = <<>>
  /\ lastGiven = <<>>
  /\ addLog = <<<<>>>>
  /\ OclIdle

NextOrder ==
  \/ \E deps \in DepChoices(MaxDeps) :
        Len(events) < MaxOrderEvents /\ enqueueRead(1, "R", deps) /\ UNCHANGED oclVars
  \/ \E deps \in DepChoices(MaxDeps) :
        Len(events) < MaxOrderEvents /\ enqueueWrite(1, "A", deps) /\ UNCHANGED oclVars
  \/ \E deps \in DepChoices(MaxDeps) : Len(events) < MaxOrderEvents /\ enqueueBarrier(deps) /\ UNCHANGED oclVars
  \/ \E e \in 1..Len(events) :
        Len(kernels[1].dependencies) < MaxDeps /\ addDependency(1, e) /\ UNCHANGED oclVars
  \/ Len(events) < MaxOrderEvents /\ enqueueKernel(1) /\ UNCHANGED oclVars
  \/ flush /\ UNCHANGED oclVars
  \/ flushReturn /\ UNCHANGED oclVars
  \/ finish /\ UNCHANGED oclVars
  \/ finishReturn /\ UNCHANGED oclVars
  \/ \E evs \in DepChoices(MaxDeps) : wait(evs) /\ UNCHANGED oclVars
  \/ waitReturn /\ UNCHANGED oclVars
  \/ \E i \in 1..Len(devQueue) : deviceStart(i) /\ UNCHANGED oclVars
  \/ \E i \in 1..Len(devQueue) : deviceComplete(i) /\ UNCHANGED oclVars

SpecOrder == InitOrder /\ [][NextOrder]_vars

\* The round trip: allocate 1024 bytes, write host buffer A with no
\* dependencies, launch a kernel on the buffer depending on the write, read
\* the buffer back depending on the kernel; the host may flush() or finish()
\* at any point.
NextRoundTrip ==
  \/ memObjs = <<>> /\ allocateMemory(1024) /\ UNCHANGED oclVars
  \/ kernels = <<>> /\ createKernelFromIL("k") /\ UNCHANGED oclVars
  \/ kernels # <<>> /\ memObjs # <<>> /\ Len(events) < 2 /\ setArg(1, 1) /\ UNCHANGED oclVars
  \/ memObjs # <<>> /\ events = <<>> /\ enqueueWrite(1, "A", <<>>) /\ UNCHANGED oclVars
  \/ kernels # <<>> /\ Len(events) = 1 /\ kernels[1].dependencies = <<>>
       /\ addDependency(1, 1) /\ UNCHANGED oclVars
  \/ kernels # <<>> /\ Len(events) = 1 /\ kernels[1].arg = 1
       /\ kernels[1].dependencies # <<>> /\ enqueueKernel(1) /\ UNCHANGED oclVars
  \/ Len(events) = 2 /\ enqueueRead(1, "R", <<2>>) /\ UNCHANGED oclVars
  \/ \E e \in 1..Len(events) : wait(<<e>>) /\ UNCHANGED oclVars
  \/ waitReturn /\ UNCHANGED oclVars
  \/ flush /\ UNCHANGED oclVars
  \/ flushReturn /\ UNCHANGED oclVars
  \/ finish /\ UNCHANGED oclVars
  \/ finishReturn /\ UNCHANGED oclVars
  \/ \E i \in 1..Len(devQueue) : deviceStart(i) /\ UNCHANGED oclVars
  \/ \E i \in 1..Len(devQueue) : deviceComplete(i) /\ UNCHANGED oclVars

SpecRoundTrip == Init /\ [][NextRoundTrip]_vars

\* Event-pool exhaustion: barriers fill the pool; the last MaxPoolTail slots
\* and the calls beyond the capacity are taken by any kind of enqueue.
NextPool ==
  \/ \E bytes \in AllocSizes : allocateMemory(bytes) /\ UNCHANGED oclVars
  \/ createKernelFromIL("k") /\ UNCHANGED oclVars
  \/ Len(events) < EventPoolCapacity - MaxPoolTail /\ enqueueBarrier(<<>>) /\ UNCHANGED oclVars
  \/ Len(events) >= EventPoolCapacity - MaxPoolTail /\ enqueueBarrier(<<>>) /\ UNCHANGED oclVars
  \/ \E m \in 1..Len(memObjs) :
        Len(events) >= EventPoolCapacity - MaxPoolTail /\ enqueueRead(m, "R", <<>>) /\ UNCHANGED oclVars
  \/ \E m \in 1..Len(memObjs) :
        Len(events) >= EventPoolCapacity - MaxPoolTail /\ enqueueWrite(m, "A", <<>>) /\ UNCHANGED oclVars
  \/ \E k \in 1..Len(kernels) :
        Len(events) >= EventPoolCapacity - MaxPoolTail /\ enqueueKernel(k) /\ UNCHANGED oclVars

SpecPool == Init /\ [][NextPool]_vars

\* Object lifetime: memory objects are allocated and retired (any number of
\* times), kernels are created, every kind of command is enqueued and
\* flushed, and the invocation is torn down.
\* LevelZeroInvocation::kernels: the push_back in createKernelFromIL is
\* commented out, nothing is ever recorded
invocationKernels == <<>>

\* the kernels whose destructor has run: the delete loop of the teardown is
\* commented out and no other code of the runtime deletes a kernel
destroyedKernels == {}

NextLife ==
  \/ \E bytes \in AllocSizes : allocateMemory(bytes) /\ UNCHANGED oclVars
  \/ \E m \in 1..Len(memObjs) :
        Len(memories) < MaxRetire /\ deallocateMemory(m) /\ UNCHANGED oclVars
  \/ createKernelFromIL("k") /\ UNCHANGED oclVars
  \/ \E m \in 1..Len(memObjs) :
        Len(events) < MaxLifeEvents /\ enqueueRead(m, "R", <<>>) /\ UNCHANGED oclVars
  \/ \E m \in 1..Len(memObjs) :
        Len(events) < MaxLifeEvents /\ enqueueWrite(m, "A", <<>>) /\ UNCHANGED oclVars
  \/ \E k \in 1..Len(kernels) :
        Len(events) < MaxLifeEvents /\ enqueueKernel(k) /\ UNCHANGED oclVars
  \/ Len(events) < MaxLifeEvents /\ enqueueBarrier(<<>>) /\ UNCHANGED oclVars
  \/ flush /\ UNCHANGED oclVars
  \/ flushReturn /\ UNCHANGED oclVars
  \/ dtorBegin /\ UNCHANGED oclVars
  \/ dtorFinishReturn /\ UNCHANGED oclVars
  \/ dtorDeleteMemories /\ UNCHANGED oclVars
  \/ dtorDestroyEvents /\ UNCHANGED oclVars
  \/ \E i \in 1..Len(devQueue) : deviceStart(i) /\ UNCHANGED oclVars
  \/ \E i \in 1..Len(devQueue) : deviceComplete(i) /\ UNCHANGED oclVars

SpecLife == Init /\ [][NextLife]_vars

\* Waiting on events: commands are enqueued and possibly flushed, and the
\* host waits on lists of the events it was given.
NextWait ==
  \/ \E deps \in DepChoices(MaxDeps) :
        Len(events) < MaxWaitEvents /\ enqueueWrite(1, "A", deps) /\ UNCHANGED oclVars
  \/ \E deps \in DepChoices(MaxDeps) :
        Len(events) < MaxWaitEvents /\ enqueueBarrier(deps) /\ UNCHANGED oclVars
  \/ flush /\ UNCHANGED oclVars
  \/ flushReturn /\ UNCHANGED oclVars
  \/ \E evs \in DepChoices(MaxWaitEvents) : wait(evs) /\ UNCHANGED oclVars
  \/ waitReturn /\ UNCHANGED oclVars
  \/ \E i \in 1..Len(devQueue) : deviceStart(i) /\ UNCHANGED oclVars
  \/ \E i \in 1..Len(devQueue) : deviceComplete(i) /\ UNCHANGED oclVars

\* the device makes progress on submitted commands, and a blocking call
\* returns once what it waits for has happened
SpecWait ==
  /\ InitOrder
  /\ [][NextWait]_vars
  /\ WF_vars(\E i \in 1..Len(devQueue) : deviceStart(i) /\ UNCHANGED oclVars)
  /\ WF_vars(\E i \in 1..Len(devQueue) : deviceComplete(i) /\ UNCHANGED oclVars)
  /\ WF_vars(flushReturn /\ UNCHANGED oclVars)
  /\ WF_vars(waitReturn /\ UNCHANGED oclVars)

\* Flushing: commands of every kind are enqueued with dependencies on
\* events of the same invocation, and flushed.
NextFlush ==
  \/ \E deps \in DepChoices(MaxDeps) :
        Len(events) < MaxFlushEvents /\ enqueueRead(1, "R", deps) /\ UNCHANGED oclVars
  \/ \E deps \in DepChoices(MaxDeps) :
        Len(events) < MaxFlushEvents /\ enqueueWrite(1, "A", deps) /\ UNCHANGED oclVars
  \/ \E deps \in DepChoices(MaxDeps) :
        Len(events) < MaxFlushEvents /\ enqueueBarrier(deps) /\ UNCHANGED oclVars
  \/ \E e \in 1..Len(events) :
        Len(kernels[1].dependencies) < MaxDeps /\ addDependency(1, e) /\ UNCHANGED oclVars
  \/ Len(events) < MaxFlushEvents /\ enqueueKernel(1) /\ UNCHANGED oclVars
  \/ flush /\ UNCHANGED oclVars
  \/ flushReturn /\ UNCHANGED oclVars
  \/ \E i \in 1..Len(devQueue) : deviceStart(i) /\ UNCHANGED oclVars
  \/ \E i \in 1..Len(devQueue) : deviceComplete(i) /\ UNCHANGED oclVars

\* the device makes progress on every submitted command whose wait events
\* are signaled, and synchronize returns once the queue has drained
SpecFlush ==
  /\ InitOrder
  /\ [][NextFlush]_vars
  /\ WF_vars(\E i \in 1..Len(devQueue) : deviceStart(i) /\ UNCHANGED oclVars)
  /\ WF_vars(\E i \in 1..Len(devQueue) : deviceComplete(i) /\ UNCHANGED oclVars)
  /\ WF_vars(flushReturn /\ UNCHANGED oclVars)

\* ------------------------------------------------------ driver-A lowering
\* Values are terms: <<"env">> the execution environment, <<"ev", j>> the
\* j-th dependency event, <<"buf", i>> the i-th kernel operand, <<"val", n>>
\* an index value that is n at run time, and the results of emitted operations.
\* Eval gives the run-time value of an index term; the products of the sizes
\* drawn here stay far below the 64-bit width of the index type.
RECURSIVE Eval(_)
Eval(t) ==
  IF t[1] = "val" THEN t[2]
  ELSE IF t[1] = "mul" THEN Eval(t[2]) * Eval(t[3])
  ELSE IF t[1] = "toint" THEN Eval(t[2])
  ELSE 0

\* BinaryModulesMap: kernel-binary identifier -> names of its kernels
modulesMap == [b \in {"bin"} |-> {"kern"}]

\* an emitted operation
Emit(op, callee, args) == [op |-> op, callee |-> callee, args |-> args]

CallOp(callee, args) == Emit("llvm.call", callee, args)

\* typeConverter.convertType of a comp event type: only the OpenCL runtime converts
llvmEventType(op) == IF op.runtime = "OpenCL" THEN "i8*" ELSE "null"

\* the kernel handle: result of the oclCreateKernel call
KernelValue == <<"res", "oclCreateKernel">>

\* "Set kernel arguments": per operand an index constant, the device pointer, the call
SetKernelArgs(op) ==
  [j \in 1..(3 * op.nargs) |->
     LET argI == (j - 1) \div 3 IN
     IF j % 3 = 1 THEN Emit("constant", "", <<argI>>)
     ELSE IF j % 3 = 2 THEN Emit("deviceMemrefToMem", "", <<<<"buf", argI>>>>)
     ELSE CallOp("oclSetKernelArg",
                 <<KernelValue, <<"idx", argI>>, <<"devmem", <<"buf", argI>>>>>>)]

\* "Set event dependencies": one oclAddKernelDep call per event operand
AddKernelDepsReversed(op) ==
  [j \in 1..op.ndeps |-> CallOp("oclAddKernelDep", <<KernelValue, <<"ev", op.ndeps + 1 - j>>>>)]
AddKernelDeps(op) ==
  [j \in 1..op.ndeps |-> CallOp("oclAddKernelDep", <<KernelValue, <<"ev", j>>>>)]

\* the global work size in one dimension: MulIOp(gridSize, blockSize)
GlobalSizeGridOnly(grid, block) == grid
GlobalSize(grid, block) == <<"mul", grid, block>>

indexToInt(v) == <<"toint", v>>

\* the multiplications, the index casts and the call that replaces the op
LaunchOps(op) ==
  LET g == op.grid
      b == op.block
      globalX == GlobalSize(g[1], b[1])
      globalY == GlobalSize(g[2], b[2])
      globalZ == GlobalSize(g[3], b[3])
      ints == <<indexToInt(globalX), indexToInt(globalY), indexToInt(globalZ),
                indexToInt(b[1]), indexToInt(b[2]), indexToInt(b[3])>>
  IN  <<Emit("muli", "", <<g[1], b[1]>>),
        Emit("muli", "", <<g[2], b[2]>>),
        Emit("muli", "", <<g[3], b[3]>>)>>
      \o [j \in 1..6 |-> Emit("indexToInt", "", <<ints[j][2]>>)]
      \o <<CallOp("oclScheduleFunc", <<<<"env">>, KernelValue>> \o ints)>>

\* ConvertScheduleFunc::matchAndRewrite (driver A)
ConvertScheduleFunc ==
  /\ oclRes = "pending"
  /\ oclOp.kind = "ScheduleFunc"
  /\ IF llvmEventType(oclOp) = "null"
     THEN oclRes' = "failure" /\ UNCHANGED oclOut
     ELSE IF oclOp.binaryName \notin DOMAIN modulesMap
     THEN oclRes' = "failure" /\ UNCHANGED oclOut
     ELSE IF oclOp.kernelName \notin modulesMap[oclOp.binaryName]
     THEN oclRes' = "failure" /\ UNCHANGED oclOut
     ELSE /\ oclOut' = oclOut
                \o <<Emit("getPtrToBinaryModule", "", <<oclOp.binaryName>>),
                     Emit("getPtrToGlobalString", "", <<oclOp.kernelName>>),
                     CallOp("oclCreateKernel",
                            <<<<"env">>, <<"binptr", oclOp.binaryName>>,
                              <<"binbytes", oclOp.binaryName>>,
                              <<"nameptr", oclOp.kernelName>>>>)>>
                \o SetKernelArgs(oclOp)
                \o AddKernelDeps(oclOp)
                \o LaunchOps(oclOp)
          /\ oclRes' = "success"
  /\ UNCHANGED <<oclOp, passVars>>

DimValues == [1..3 -> {<<"val", n>> : n \in 1..MaxDim}]

ScheduleFuncOps ==
  [kind : {"ScheduleFunc"}, runtime : {"OpenCL", "Vulkan"},
   binaryName : {"bin", "nobin"}, kernelName : {"kern", "nokern"},
   nargs : 0..MaxOclArgs, ndeps : 0..MaxOclDeps,
   grid : DimValues, block : DimValues]

InitOcl ==
  /\ RtInit
  /\ oclOp \in ScheduleFuncOps
  /\ oclOut = <<>>
  /\ oclRes = "pending"
  /\ PassIdle

NextOcl ==
  /\ ConvertScheduleFunc
  /\ UNCHANGED rtVars

SpecOcl == InitOcl /\ [][NextOcl]_vars

\* ------------------------------------------------------ driver-B lowering
\* Buffer values that kernel-launch ops take as arguments.
Buffers == {"a", "b"}

\* bufferMap[key] = value
MapPutKeepFirst(m, k, v) ==
  [x \in (DOMAIN m) \cup {k} |-> IF x \in DOMAIN m THEN m[x] ELSE v]
MapPut(m, k, v) == [x \in (DOMAIN m) \cup {k} |-> IF x = k THEN v ELSE m[x]]

\* a grid size operand: <<"const", n>> is the result of a constant op with
\* "value" n, <<"val", n>> the result of another op, <<"arg", n>> a block argument
IsConstant(g) == g[1] = "const"

\* getDefiningOp()->getAttrOfType<IntegerAttr>("value") and the i32 constant built from it
VkGridConstant(g) == IF IsConstant(g) THEN <<"i32", g[2]>> ELSE <<"nullattr">>

\* What the lookup of "value" can do on a grid operand that no constant op
\* defines: dereference a null defining op or build a constant from a null
\* attribute; the program crashes or goes on.
VkGridOutcomes(op) ==
  IF \A d \in 1..3 : IsConstant(op.grid[d]) THEN {"continue"} ELSE {"crash", "continue"}

\* binding one buffer: binding-index constant, byte size, raw pointer, vkBindBuffer
VkBindOneAtZero(bindIndex, buf) ==
  <<Emit("llvm.constant", "", <<0>>),
    Emit("getCumulativeSizeInBytes", "", <<buf>>),
    Emit("llvm.bitcast", "", <<buf>>),
    CallOp("vkBindBuffer",
           <<<<"env">>, <<"i32", 0>>, <<"i32", 0>>, <<"bytes", buf>>, <<"raw", buf>>>>)>>
VkBindOne(bindIndex, buf) ==
  <<Emit("llvm.constant", "", <<bindIndex>>),
    Emit("getCumulativeSizeInBytes", "", <<buf>>),
    Emit("llvm.bitcast", "", <<buf>>),
    CallOp("vkBindBuffer",
           <<<<"env">>, <<"i32", 0>>, <<"i32", bindIndex>>,
             <<"bytes", buf>>, <<"raw", buf>>>>)>>

\* "Bind all buffers": the loop from argument i on; it ends at the first
\* argument that is no memref, after that argument's binding-index constant
RECURSIVE VkBindBuffers(_, _)
VkBindBuffers(op, i) ==
  IF i > Len(op.args) THEN <<>>
  ELSE IF op.argTypes[i] # "memref" THEN <<Emit("llvm.constant", "", <<i - 1>>)>>
  ELSE VkBindOne(i - 1, op.args[i]) \o VkBindBuffers(op, i + 1)

AllMemRefs(op) == \A i \in 1..Len(op.args) : op.argTypes[i] = "memref"

\* one memory-transfer action: four constants and the call
VkTransfer(src, step, binding) ==
  <<Emit("llvm.constant", "", <<step>>),
    Emit("llvm.constant", "", <<binding>>),
    Emit("llvm.constant", "", <<src[1]>>),
    Emit("llvm.constant", "", <<src[2]>>),
    CallOp("vkCreateMemoryTransferAction",
           <<<<"env">>, <<"i64", src[1]>>, <<"i64", src[2]>>,
             <<"i64", step>>, <<"i64", binding>>>>)>>

\* "Create Vulkan MemoryTransferAction": the loop from argument i on, with
\* the map as the earlier iterations left it
RECURSIVE VkTransfers(_, _, _, _)
VkTransfers(args, i, map, step) ==
  IF i > Len(args) THEN [ops |-> <<>>, map |-> map]
  ELSE LET b == args[i]
           found == IF b \in DOMAIN map THEN VkTransfer(map[b], step, i - 1) ELSE <<>>
           rest == VkTransfers(args, i + 1, MapPut(map, b, <<step, i - 1>>), step)
       IN  [ops |-> found \o rest.ops, map |-> rest.map]

\* the operations emitted up to and including the binding loop
VkHead(op) ==
  <<Emit("getPtrToBinaryModule", "", <<op.binaryName>>),
    Emit("getPtrToGlobalString", "", <<op.kernelName>>)>>

VkGridConstants(op) ==
  [d \in 1..3 |-> Emit("llvm.constant", "", <<VkGridConstant(op.grid[d])>>)]

VkCreateAction(op) ==
  CallOp("vkCreateLaunchKernelAction",
         <<<<"env">>, <<"binptr", op.binaryName>>, <<"binbytes", op.binaryName>>,
           <<"nameptr", op.kernelName>>, VkGridConstant(op.grid[1]),
           VkGridConstant(op.grid[2]), VkGridConstant(op.grid[3])>>)

\* the run call, emitted when scheduleFuncIndex == scheduleFuncNum - 1 (both
\* uint32_t: with scheduleFuncNum = 0 the right side is 2^32 - 1, which no
\* step index drawn here reaches)
VkRunFirstStep(index, num) == IF index = 0 THEN <<CallOp("vkRun", <<<<"env">>>>)>> ELSE <<>>
VkRunEveryStep(index, num) == <<CallOp("vkRun", <<<<"env">>>>)>>
VkRun(index, num) ==
  IF num >= 1 /\ index = num - 1 THEN <<CallOp("vkRun", <<<<"env">>>>)>> ELSE <<>>

\* return mlir::failure(): the step counter and the buffer map are as the
\* call found them
VkFailedCounted(out, index, map) ==
  [res |-> "failure", out |-> out, index |-> index + 1, map |-> map]
VkFailed(out, index, map) == [res |-> "failure", out |-> out, index |-> index, map |-> map]

\* the launch action, its subgroup size, the transfer actions into this
\* step, and the call that schedules the launch and replaces the op
VkTransfersThenLaunch(op, transfers) ==
  transfers
    \o <<VkCreateAction(op),
         Emit("llvm.constant", "", <<op.subgroupSize>>),
         CallOp("vkSetLaunchKernelAction", <<<<"env">>, <<"i32", op.subgroupSize>>>>),
         CallOp("vkScheduleFunc", <<<<"env">>>>)>>
VkLaunchAndTransfers(op, transfers) ==
  <<VkCreateAction(op),
    Emit("llvm.constant", "", <<op.subgroupSize>>),
    CallOp("vkSetLaunchKernelAction", <<<<"env">>, <<"i32", op.subgroupSize>>>>)>>
    \o transfers
    \o <<CallOp("vkScheduleFunc", <<<<"env">>>>)>>

\* ConvertScheduleFunc::matchAndRewrite (driver B): result, emitted
\* operations, step counter and buffer map after the call
VkRewrite(op, index, map, num, outcome) ==
  IF op.binaryName \notin DOMAIN modulesMap
  THEN VkFailed(<<>>, index, map)
  ELSE IF op.kernelName \notin modulesMap[op.binaryName]
  THEN VkFailed(<<>>, index, map)
  ELSE IF outcome = "crash"
  THEN [res |-> "crash", out |-> VkHead(op), index |-> index, map |-> map]
  ELSE LET head == VkHead(op) \o VkGridConstants(op)
                     \o <<Emit("llvm.constant", "", <<0>>)>>
                     \o VkBindBuffers(op, 1)
       IN  IF ~AllMemRefs(op)
           THEN VkFailed(head, index, map)
           ELSE LET tr == VkTransfers(op.args, 1, map, index)
                IN  [res |-> "success",
                     out |-> head \o VkLaunchAndTransfers(op, tr.ops) \o VkRun(index, num),
                     index |-> index + 1,
                     map |-> tr.map]

ConvertScheduleFuncVk ==
  /\ oclRes = "pending"
  /\ oclOp.kind = "ScheduleFunc"
  /\ \E outcome \in VkGridOutcomes(oclOp) :
       LET r == VkRewrite(oclOp, pScheduleFuncIndex, pBufferMap, scheduleFuncNum, outcome)
       IN  /\ oclRes' = r.res
           /\ oclOut' = oclOut \o r.out
           /\ pScheduleFuncIndex' = r.index
           /\ pBufferMap' = r.map
  /\ UNCHANGED <<oclOp, pass, unit, lowered, scheduleFuncNum, symbols>>

\* applyPartialConversion: the rewritten operation is replaced by what the
\* pattern emitted and the next operation of the unit is taken
applyNext ==
  /\ oclRes = "success"
  /\ lowered' = Append(lowered, oclOut)
  /\ oclOut' = <<>>
  /\ IF Len(lowered) + 1 < Len(unit)
     THEN oclOp' = unit[Len(lowered) + 2] /\ oclRes' = "pending"
     ELSE oclOp' = [kind |-> "none"] /\ oclRes' = "done"
  /\ UNCHANGED <<pass, unit, scheduleFuncNum, pScheduleFuncIndex, pBufferMap, symbols>>

\* argument lists of up to n buffer values
ArgLists(n) == UNION {[1..k -> Buffers] : k \in 0..n}

\* kernel-launch ops whose lowering succeeds: binary and kernel are
\* serialized, the grid sizes are constants, the arguments are memrefs
VkLaunchOps ==
  {[kind |-> "ScheduleFunc", runtime |-> "Vulkan", binaryName |-> "bin",
    kernelName |-> "kern", args |-> a, argTypes |-> [i \in 1..Len(a) |-> "memref"],
    grid |-> [d \in 1..3 |-> <<"const", 1>>], subgroupSize |-> 1] :
   a \in ArgLists(MaxVkArgs)}

\* the units of up to MaxUnit kernel-launch ops; the buffer values are
\* interchangeable, so the first one a unit mentions is taken to be "a"
FirstIsA(u) ==
  \A i \in 1..Len(u) :
    (u[i].args # <<>> /\ \A j \in 1..(i - 1) : u[j].args = <<>>) => u[i].args[1] = "a"

VkUnits == {u \in UNION {[1..n -> VkLaunchOps] : n \in 1..MaxUnit} : FirstIsA(u)}

\* module.walk([&](comp::ScheduleFunc op) { scheduleFuncNum++; })
CountScheduleFunc(u) == Cardinality({i \in 1..Len(u) : u[i].kind = "ScheduleFunc"})

\* ConvertCompToVulkanCall::runOnOperation up to the first pattern application
InitVk ==
  /\ RtInit
  /\ pass = "vulkan"
  /\ unit \in VkUnits
  /\ lowered = <<>>
  /\ scheduleFuncNum = CountScheduleFunc(unit)
  /\ pScheduleFuncIndex = 0
  /\ pBufferMap = <<>>
  /\ symbols = <<>>
  /\ oclOp = unit[1]
  /\ oclOut = <<>>
  /\ oclRes = "pending"

NextVk ==
  \/ ConvertScheduleFuncVk /\ UNCHANGED rtVars
  \/ applyNext /\ UNCHANGED rtVars

SpecVk == InitVk /\ [][NextVk]_vars

\* Units in which a launch may fail: the binary or the kernel may be
\* missing from the serialized modules, an argument may be no memref.
VkFailOps ==
  {[kind |-> "ScheduleFunc", runtime |-> "Vulkan", binaryName |-> b, kernelName |-> kn,
    args |-> ta.args, argTypes |-> ta.argTypes,
    grid |-> [d \in 1..3 |-> <<"const", 1>>], subgroupSize |-> 1] :
     b \in {"bin", "nobin"},
     kn \in {"kern", "nokern"},
     ta \in {[args |-> a, argTypes |-> t] : a \in {<<>>}, t \in {<<>>}}
            \cup {[args |-> <<x>>, argTypes |-> <<ty>>] : x \in Buffers, ty \in {"memref", "other"}}}

InitVkFail ==
  /\ RtInit
  /\ pass = "vulkan"
  /\ unit \in UNION {[1..n -> VkFailOps] : n \in 1..MaxFailUnit}
  /\ lowered = <<>>
  /\ scheduleFuncNum = CountScheduleFunc(unit)
  /\ pScheduleFuncIndex = 0
  /\ pBufferMap = <<>>
  /\ symbols = <<>>
  /\ oclOp = unit[1]
  /\ oclOut = <<>>
  /\ oclRes = "pending"

SpecVkFail == InitVkFail /\ [][NextVk]_vars

\* ------------------------------------------------ single-op lowering
\* the runtime a driver's base pattern is constructed with
PassRuntime(p) == IF p = "ocl" THEN "OpenCL" ELSE "Vulkan"

\* isMatchingRuntime(op): the op's runtime tag is the pattern's runtime
isMatchingRuntimeAny(p, op) == TRUE
isMatchingRuntime(p, op) == op.runtime = PassRuntime(p)

\* the function-call patterns each driver registers: callee, varArg, nonVarArgs
OclFuncCallPatterns ==
  [k \in {"CreateExecEnv", "DestroyExecEnv", "ScheduleBarrier", "Submit", "Wait"} |->
     IF k = "CreateExecEnv" THEN [funcName |-> "oclCreate", varArg |-> FALSE, nonVarArgs |-> 0]
     ELSE IF k = "DestroyExecEnv" THEN [funcName |-> "oclDestroy", varArg |-> FALSE, nonVarArgs |-> 0]
     ELSE IF k = "ScheduleBarrier" THEN [funcName |-> "oclBarrier", varArg |-> TRUE, nonVarArgs |-> 1]
     ELSE IF k = "Submit" THEN [funcName |-> "oclSubmit", varArg |-> FALSE, nonVarArgs |-> 0]
     ELSE [funcName |-> "oclWait", varArg |-> TRUE, nonVarArgs |-> 0]]

VkFuncCallPatterns ==
  [k \in {"CreateExecEnv", "DestroyExecEnv", "Wait"} |->
     IF k = "CreateExecEnv" THEN [funcName |-> "vkInit", varArg |-> FALSE, nonVarArgs |-> 0]
     ELSE IF k = "DestroyExecEnv" THEN [funcName |-> "vkDeinit", varArg |-> FALSE, nonVarArgs |-> 0]
     ELSE [funcName |-> "vkWait", varArg |-> TRUE, nonVarArgs |-> 0]]

FuncCallPatterns(p) == IF p = "ocl" THEN OclFuncCallPatterns ELSE VkFuncCallPatterns

\* newOperands: the first nonVarArgs operands, the count constant, the rest
VarArgOperandsCountLast(operands, nonVarArgs, cnt) == operands \o <<cnt>>
VarArgOperands(operands, nonVarArgs, cnt) ==
  SubSeq(operands, 1, nonVarArgs) \o <<cnt>>
    \o SubSeq(operands, nonVarArgs + 1, Len(operands))

\* what ConvertToFuncCallPattern emits once the runtime matches
FuncCall(op, pat) ==
  IF ~pat.varArg
  THEN <<CallOp(pat.funcName, op.operands)>>
  ELSE LET cnt == Len(op.operands) - pat.nonVarArgs
       IN  <<Emit("llvm.constant", "", <<cnt>>),
             CallOp(pat.funcName,
                    VarArgOperands(op.operands, pat.nonVarArgs, <<"i32", cnt>>))>>

\* ConvertToFuncCallPattern<Op>::matchAndRewrite (both drivers)
ConvertToFuncCallPattern ==
  /\ oclRes = "pending"
  /\ pass \in {"ocl", "vulkan"}
  /\ oclOp.kind \in DOMAIN FuncCallPatterns(pass)
  /\ IF ~isMatchingRuntime(pass, oclOp)
     THEN oclRes' = "failure" /\ UNCHANGED oclOut
     ELSE /\ oclOut' = oclOut \o FuncCall(oclOp, FuncCallPatterns(pass)[oclOp.kind])
          /\ oclRes' = "success"
  /\ UNCHANGED <<oclOp, passVars>>

\* ConvertScheduleReadWrite<Op>::funcName()
ReadWriteFuncName(kind) == IF kind = "ScheduleRead" THEN "oclRead" ELSE "oclWrite"

\* the call is created with the converted event type as its result type
\* without a test of it: with a null type the creation crashes or goes on
ReadWriteOutcomes(op) ==
  IF llvmEventType(op) = "null" THEN {"crash", "success"} ELSE {"success"}

\* what ConvertScheduleReadWrite emits: nonVarArgs = 3
ReadWriteOps(op) ==
  LET cnt == Len(op.operands) - 3
      callOperands == <<<<"hostmem", op.operands[1]>>, <<"devmem", op.operands[2]>>,
                        op.operands[3]>>
  IN  <<Emit("hostMemrefToMem", "", <<op.operands[1]>>),
        Emit("deviceMemrefToMem", "", <<op.operands[2]>>),
        Emit("constant", "", <<cnt>>),
        CallOp(ReadWriteFuncName(op.kind),
               callOperands \o <<<<"idx", cnt>>>> \o SubSeq(op.operands, 4, Len(op.operands)))>>

\* ConvertScheduleReadWrite<Op>::matchAndRewrite (driver A)
ConvertScheduleReadWrite ==
  /\ oclRes = "pending"
  /\ pass = "ocl"
  /\ oclOp.kind \in {"ScheduleRead", "ScheduleWrite"}
  /\ oclOut' = oclOut \o ReadWriteOps(oclOp)
  /\ oclRes' \in ReadWriteOutcomes(oclOp)
  /\ UNCHANGED <<oclOp, passVars>>

\* typeConverter.convertType(resultType.getElementType()) is an LLVM type
ElementTypeConverts(op) == op.elemType = "f32"

\* sizes, byte count and the oclAlloc call: emitted before the target type is tested
AllocCallNone(op) == <<>>
AllocCall(op) ==
  <<Emit("getMemRefDescriptorSizes", "", <<op.elemType>>),
    Emit("getCumulativeSizeInBytes", "", <<op.elemType>>),
    CallOp("oclAlloc", <<op.operands[1], <<"bytes", op.elemType>>>>)>>

\* ConvertAlloc::matchAndRewrite (driver A)
ConvertAlloc ==
  /\ oclRes = "pending"
  /\ pass = "ocl"
  /\ oclOp.kind = "Alloc"
  /\ IF ~ElementTypeConverts(oclOp)
     THEN /\ oclOut' = oclOut \o AllocCall(oclOp)
          /\ oclRes' = "failure"
     ELSE /\ oclOut' = oclOut \o AllocCall(oclOp)
                \o <<Emit("llvm.bitcast", "", <<<<"res", "oclAlloc">>>>),
                     Emit("llvm.addrspacecast", "", <<<<"res", "oclAlloc">>>>),
                     Emit("MemRefDescriptor", "", <<<<"res", "oclAlloc">>>>)>>
          /\ oclRes' = "success"
  /\ UNCHANGED <<oclOp, passVars>>

\* ConvertDealloc::matchAndRewrite (driver A)
ConvertDealloc ==
  /\ oclRes = "pending"
  /\ pass = "ocl"
  /\ oclOp.kind = "Dealloc"
  /\ oclOut' = oclOut
        \o <<Emit("deviceMemrefToMem", "", <<oclOp.operands[2]>>),
             CallOp("oclDealloc", <<oclOp.operands[1], <<"devmem", oclOp.operands[2]>>>>)>>
  /\ oclRes' = "success"
  /\ UNCHANGED <<oclOp, passVars>>

\* the abstract ops driver B registers no pattern for: they stay illegal
\* and the conversion fails on them with nothing emitted
VkUnconverted == {"Alloc", "Dealloc", "ScheduleRead", "ScheduleWrite", "ScheduleBarrier", "Submit"}

applyNoPattern ==
  /\ oclRes = "pending"
  /\ pass = "vulkan"
  /\ oclOp.kind \in VkUnconverted
  /\ oclRes' = "failure"
  /\ UNCHANGED <<oclOp, oclOut, passVars>>

\* event operands: the variadic tail of up to n dependency events
EventTails(n) == UNION {{[j \in 1..k |-> <<"ev", j>>]} : k \in 0..n}

\* the fixed leading operands of each op kind
FixedOperands(kind) ==
  IF kind \in {"ScheduleRead", "ScheduleWrite"} THEN <<<<"host">>, <<"dev">>, <<"env">>>>
  ELSE IF kind = "Dealloc" THEN <<<<"env">>, <<"dev">>>>
  ELSE IF kind = "CreateExecEnv" THEN <<<<"device">>>>
  ELSE IF kind = "Wait" THEN <<>>
  ELSE <<<<"env">>>>

VariadicKinds == {"ScheduleRead", "ScheduleWrite", "ScheduleBarrier", "Wait"}

\* kernel arguments with their types: memory buffers or other values
TypedArgs(n) ==
  UNION {{[args |-> a, argTypes |-> t] : a \in [1..k -> Buffers],
                                         t \in [1..k -> {"memref", "other"}]} : k \in 0..n}

GridValues == [1..3 -> {<<"const", 1>>, <<"val", 1>>, <<"arg", 1>>}]

\* the abstract operations of every kind, with either runtime tag
LowerOps ==
  {[kind |-> k, runtime |-> r, operands |-> FixedOperands(k) \o t, elemType |-> e,
    binaryName |-> "bin", kernelName |-> "kern", args |-> <<>>, argTypes |-> <<>>,
    nargs |-> 0, ndeps |-> 0, grid |-> [d \in 1..3 |-> <<"const", 1>>],
    block |-> [d \in 1..3 |-> <<"val", 1>>], subgroupSize |-> 1] :
     k \in {"CreateExecEnv", "DestroyExecEnv", "Alloc", "Dealloc", "ScheduleRead",
            "ScheduleWrite", "ScheduleBarrier", "Submit", "Wait"},
     r \in {"OpenCL", "Vulkan"},
     t \in EventTails(MaxTail),
     e \in {"f32", "opaque"}}
  \cup
  {[kind |-> "ScheduleFunc", runtime |-> r, operands |-> <<<<"env">>>> \o t, elemType |-> "f32",
    binaryName |-> b, kernelName |-> kn, args |-> ta.args, argTypes |-> ta.argTypes,
    nargs |-> Len(ta.args), ndeps |-> Len(t), grid |-> g,
    block |-> [d \in 1..3 |-> <<"val", 1>>], subgroupSize |-> 1] :
     r \in {"OpenCL", "Vulkan"},
     t \in EventTails(MaxTail),
     b \in {"bin", "nobin"},
     kn \in {"kern", "nokern"},
     ta \in TypedArgs(MaxVkArgs),
     g \in GridValues}

\* well-formed input: only the variadic kinds and ScheduleFunc take event
\* operands, only Alloc has an element type to convert
WellFormed(op) ==
  /\ op.kind \notin VariadicKinds \cup {"ScheduleFunc"} => Len(op.operands) = Len(FixedOperands(op.kind))
  /\ op.kind # "Alloc" => op.elemType = "f32"

\* either pass, started on a unit of one abstract operation
InitLower ==
  /\ RtInit
  /\ pass \in {"ocl", "vulkan"}
  /\ \E op \in {o \in LowerOps : WellFormed(o)} : unit = <<op>>
  /\ lowered = <<>>
  /\ scheduleFuncNum = CountScheduleFunc(unit)
  /\ pScheduleFuncIndex = 0
  /\ pBufferMap = <<>>
  /\ symbols = <<>>
  /\ oclOp = unit[1]
  /\ oclOut = <<>>
  /\ oclRes = "pending"

NextLower ==
  \/ ConvertToFuncCallPattern /\ UNCHANGED rtVars
  \/ ConvertScheduleReadWrite /\ UNCHANGED rtVars
  \/ ConvertAlloc /\ UNCHANGED rtVars
  \/ ConvertDealloc /\ UNCHANGED rtVars
  \/ pass = "ocl" /\ ConvertScheduleFunc /\ UNCHANGED rtVars
  \/ pass = "vulkan" /\ ConvertScheduleFuncVk /\ UNCHANGED rtVars
  \/ applyNoPattern /\ UNCHANGED rtVars
  \/ applyNext /\ UNCHANGED rtVars

SpecLower == InitLower /\ [][NextLower]_vars

\* ------------------------------------------------- function declarations
\* the native entry points, in the order the declarations are inserted
OclFunctions ==
  <<"oclCreate", "oclDestroy", "oclAlloc", "oclDealloc", "oclRead", "oclWrite",
    "oclCreateKernel", "oclSetKernelArg", "oclAddKernelDep", "oclScheduleFunc",
    "oclBarrier", "oclSubmit", "oclWait">>

VkFunctions ==
  <<"vkInit", "vkCreateLaunchKernelAction", "vkSetLaunchKernelAction", "vkRun",
    "vkScheduleFunc", "vkDeinit", "vkWait", "vkCreateMemoryTransferAction",
    "vkBindBuffer">>

\* module.lookupSymbol(name)
lookupSymbolNothing(syms, name) == FALSE
lookupSymbol(syms, name) == name \in Range(syms)

\* if (!module.lookupSymbol(name)) builder.create<LLVM::LLVMFuncOp>(loc, name, ...),
\* for names[i], names[i + 1], ...
RECURSIVE DeclareAbsent(_, _, _)
DeclareAbsent(syms, names, i) ==
  IF i > Len(names) THEN syms
  ELSE DeclareAbsent(IF lookupSymbol(syms, names[i]) THEN syms ELSE Append(syms, names[i]),
                     names, i + 1)

\* applyPartialConversion has returned: with success or with a failure, after
\* which signalPassFailure() does not leave runOnOperation
ConversionOver == oclRes \in {"done", "failure"}

\* addOclFunctionDeclarations, at the end of ConvertCompToOcl::runOnOperation
addOclFunctionDeclarations ==
  /\ pass = "ocl"
  /\ ConversionOver
  /\ symbols' = DeclareAbsent(symbols, OclFunctions, 1)
  /\ oclRes' = "finished"
  /\ UNCHANGED <<oclOp, oclOut, pass, unit, lowered, scheduleFuncNum, pScheduleFuncIndex,
                 pBufferMap>>

\* addVkFunctionDeclarations, at the end of ConvertCompToVulkanCall::runOnOperation
addVkFunctionDeclarations ==
  /\ pass = "vulkan"
  /\ ConversionOver
  /\ symbols' = symbols \o VkFunctions
  /\ oclRes' = "finished"
  /\ UNCHANGED <<oclOp, oclOut, pass, unit, lowered, scheduleFuncNum, pScheduleFuncIndex,
                 pBufferMap>>

\* the same pass runs again on its own output: no abstract operation is
\* left, the walk counts no launch, the pattern instance is a new one
runOnOperation ==
  /\ oclRes = "finished"
  /\ Len(symbols) <= MaxRuns * Len(OclFunctions)
  /\ unit' = <<>>
  /\ lowered' = <<>>
  /\ scheduleFuncNum' = 0
  /\ pScheduleFuncIndex' = 0
  /\ pBufferMap' = <<>>
  /\ oclOp' = [kind |-> "none"]
  /\ oclOut' = <<>>
  /\ oclRes' = "done"
  /\ UNCHANGED <<pass, symbols>>

\* the names of `names` that are in S, in the order of `names`
RECURSIVE Declared(_, _, _)
Declared(names, S, i) ==
  IF i > Len(names) THEN <<>>
  ELSE (IF names[i] \in S THEN <<names[i]>> ELSE <<>>) \o Declared(names, S, i + 1)

\* a unit without abstract operations whose module already holds some of
\* the pass's native declarations, each at most once
InitDecl ==
  /\ RtInit
  /\ pass \in {"ocl", "vulkan"}
  /\ unit = <<>>
  /\ lowered = <<>>
  /\ scheduleFuncNum = 0
  /\ pScheduleFuncIndex = 0
  /\ pBufferMap = <<>>
  /\ \E S \in SUBSET Range(IF pass = "ocl" THEN OclFunctions ELSE VkFunctions) :
       symbols = Declared(IF pass = "ocl" THEN OclFunctions ELSE VkFunctions, S, 1)
  /\ oclOp = [kind |-> "none"]
  /\ oclOut = <<>>
  /\ oclRes = "done"

NextDecl ==
  \/ addOclFunctionDeclarations /\ UNCHANGED rtVars
  \/ addVkFunctionDeclarations /\ UNCHANGED rtVars
  \/ runOnOperation /\ UNCHANGED rtVars

SpecDecl == InitDecl /\ [][NextDecl]_vars

\* if (failed(serializeSpirvKernels(module, modulesMap))) return signalPassFailure();
\* the first step of both runOnOperation bodies: on failure the pass is left
\* at once, otherwise the conversion of the operations starts
serializeSpirvKernels ==
  /\ oclRes = "serialize"
  /\ oclRes' \in {"pending", "aborted"}
  /\ UNCHANGED <<oclOp, oclOut, passVars>>

\* either pass at the entry of runOnOperation, on a unit of one abstract
\* operation whose module holds no native declaration yet
InitPass ==
  /\ RtInit
  /\ pass \in {"ocl", "vulkan"}
  /\ \E op \in {o \in LowerOps : WellFormed(o)} : unit = <<op>>
  /\ lowered = <<>>
  /\ scheduleFuncNum = CountScheduleFunc(unit)
  /\ pScheduleFuncIndex = 0
  /\ pBufferMap = <<>>
  /\ symbols = <<>>
  /\ oclOp = unit[1]
  /\ oclOut = <<>>
  /\ oclRes = "serialize"

\* runOnOperation from its first statement to its last
NextPass ==
  \/ serializeSpirvKernels /\ UNCHANGED rtVars
  \/ ConvertToFuncCallPattern /\ UNCHANGED rtVars
  \/ ConvertScheduleReadWrite /\ UNCHANGED rtVars
  \/ ConvertAlloc /\ UNCHANGED rtVars
  \/ ConvertDealloc /\ UNCHANGED rtVars
  \/ pass = "ocl" /\ ConvertScheduleFunc /\ UNCHANGED rtVars
  \/ pass = "vulkan" /\ ConvertScheduleFuncVk /\ UNCHANGED rtVars
  \/ applyNoPattern /\ UNCHANGED rtVars
  \/ applyNext /\ UNCHANGED rtVars
  \/ addOclFunctionDeclarations /\ UNCHANGED rtVars
  \/ addVkFunctionDeclarations /\ UNCHANGED rtVars

SpecPass == InitPass /\ [][NextPass]_vars

\* ------------------------------------------------------------------ claims
LastCmd == cmdList[Len(cmdList)]

LastEvent == events[Len(events)]

\* C1: the launch command appended by enqueueKernel carries exactly the events
\* added by addDependency since the previous enqueue of that kernel, and the
\* kernel's dependency list is empty right after every enqueue (so it always
\* equals the events added since the last enqueue).
C1_KernelDependencies ==
  /\ \A k \in 1..Len(kernels) : kernels[k].dependencies = addLog[k]
  /\ (cmdList # <<>> /\ LastCmd.op = "kernel" /\ LastCmd.signal = LastEvent.event)
        => LastCmd.deps = lastGiven

\* a kernel launched with dependencies and relaunched at once carries none
C1_Relaunched ==
  \E i \in 1..(Len(cmdList) - 1) :
    /\ cmdList[i].op = "kernel" /\ cmdList[i + 1].op = "kernel"
    /\ cmdList[i].kern = cmdList[i + 1].kern
    /\ cmdList[i].deps # <<>>
    /\ cmdList[i + 1].deps = <<>>

\* C2: deallocateMemory only retires the Memory Object: nothing is released
\* before teardown deletes the retired list, so no appended or submitted copy
\* ever refers to a released object.
C2_DeferredFree ==
  pc \notin {"dtor_events", "destroyed"} =>
    /\ released = {}
    /\ \A m \in Range(memories) : m \in 1..Len(memObjs)
    /\ \A i \in 1..Len(devQueue) : devQueue[i].cmd.mem \notin released

\* a copy is executing on the device while its Memory Object is already retired
C2_PendingCopyOnRetired ==
  /\ pc = "flush"
  /\ \E i \in 1..Len(devQueue) :
       devQueue[i].st = "running" /\ devQueue[i].cmd.mem \in Range(memories)

\* C4: a command carries exactly the native handles of the dependency events
\* it was given, and a command runs on the device only when all of them have
\* completed.
C4_DependenciesGate ==
  /\ (cmdList # <<>> /\ LastCmd.signal = LastEvent.event) => LastCmd.deps = lastGiven
  /\ \A i \in 1..Len(devQueue) :
       devQueue[i].st = "running" =>
         /\ Range(devQueue[i].cmd.deps) \subseteq signaled
         /\ devQueue[i].cmd.signal = LastEvent.event => Range(lastGiven) \subseteq signaled

\* a submitted command is held back by a dependency while the command it
\* depends on is running
C4_HeldBack ==
  \E i, j \in 1..Len(devQueue) :
    /\ devQueue[i].st = "submitted"
    /\ devQueue[j].st = "running"
    /\ devQueue[j].cmd.signal \in Range(devQueue[i].cmd.deps)

\* two commands without a dependency path: the one appended later has
\* completed while the one appended first has not started
C4_EitherOrder ==
  /\ Len(events) = 2
  /\ Len(devQueue) = 1
  /\ devQueue[1].cmd.signal = events[1].event
  /\ devQueue[1].st = "submitted"
  /\ events[2].event \in signaled

\* C5: when flush() returns every command enqueued before it has completed
\* and the command list is empty; commands are on the device only while the
\* host is inside flush(), and never commands of two flush cycles at once.
C5_FlushSynchronizes ==
  /\ [][(pc = "flush" /\ pc' = "idle") =>
          /\ cmdList' = <<>>
          /\ devQueue' = <<>>
          /\ \A i \in 1..Len(events) : events[i].event \in signaled']_vars
  /\ [](devQueue # <<>> => pc = "flush")
  /\ [](\A i, j \in 1..Len(devQueue) : devQueue[i].cycle = devQueue[j].cycle)

\* flush() has returned after executing commands
C5_Flushed ==
  /\ pc = "idle"
  /\ cmdList = <<>>
  /\ Len(events) >= 2
  /\ \A i \in 1..Len(events) : events[i].event \in signaled

\* C6: finish() leaves the pending command list unchanged and submits none of
\* it: the commands enqueued since the last flush() are still unexecuted when
\* finish() returns.
C6_FinishFrame ==
  /\ [][((pc = "idle" /\ pc' = "finish") \/ (pc = "finish" /\ pc' = "idle")) =>
          /\ cmdList' = cmdList
          /\ devQueue' = devQueue
          /\ signaled' = signaled]_vars
  /\ [][(pc = "finish" /\ pc' = "idle") =>
          \A i \in 1..Len(cmdList') : cmdList'[i].signal \notin signaled']_vars

\* finish() is about to return with commands pending in the command list
C6_FinishWithPending ==
  /\ pc = "finish"
  /\ QueueDrained
  /\ cmdList # <<>>

\* C7: teardown runs finish() first and only then deletes the retired Memory
\* Objects and destroys the pooled events; nothing is executing on the device
\* when either happens.
C7_TeardownOrder ==
  [][/\ pc' = "dtor_mem" => (pc = "dtor_finish" /\ devQueue = <<>>)
     /\ released' # released => (pc = "dtor_mem" /\ devQueue = <<>>)
     /\ ~(poolUsed \subseteq poolUsed') => (pc = "dtor_events" /\ devQueue = <<>>)]_vars

\* teardown has completed: it released retired memory and destroyed events
C7_TornDown ==
  /\ pc = "destroyed"
  /\ released # {}
  /\ events # <<>>
  /\ poolUsed = {}

\* the host is inside a call that cannot return yet
HostBlocked ==
  \/ pc \in {"flush", "finish", "dtor_finish"} /\ ~QueueDrained
  \/ ~(Range(waiting) \subseteq signaled)

\* C9 as stated: only flush() and finish() ever block the host.
C9_OnlyFlushFinishBlock == HostBlocked => pc \in {"flush", "finish"}

\* C9, amended: only flush(), finish() (also the one teardown runs) and
\* LevelZeroEvent::wait ever block the host; every enqueue* call returns at
\* once with an event that is still pending.
C9_BlockingCalls ==
  /\ [](HostBlocked => pc \in {"flush", "finish", "dtor_finish", "wait"})
  /\ [][Len(events') > Len(events) =>
          /\ pc = "idle" /\ pc' = "idle"
          /\ events'[Len(events')].event \notin signaled']_vars

\* the host is blocked in LevelZeroEvent::wait on an event whose command was
\* never flushed
C9_BlockedInWait ==
  /\ pc = "wait"
  /\ HostBlocked
  /\ cmdList # <<>>

\* the events of the round trip are all enqueued: write, kernel, read
RoundTripEnqueued ==
  /\ Len(events) = 3
  /\ events[1].kind = "Write" /\ events[2].kind = "Kernel" /\ events[3].kind = "Read"

\* C3 as stated: in the round trip, when finish() returns the read's
\* destination holds the kernel's output.
C3_FinishDeliversOutput ==
  [][(pc = "finish" /\ pc' = "idle" /\ RoundTripEnqueued /\ Len(cmdList) = 3) =>
       hostBuf'["R"] = <<"K", "A">>]_vars

\* C3, amended: in the round trip followed by flush(), when flush() returns
\* the read's destination holds the kernel's output computed from buffer A,
\* never the pre-kernel contents.
C3_FlushDeliversOutput ==
  (pc = "idle" /\ RoundTripEnqueued /\ cmdList = <<>>) => hostBuf["R"] = <<"K", "A">>

\* flush() has returned after the three commands of the round trip were
\* enqueued in one command list
C3_RoundTripFlushed ==
  /\ pc = "idle"
  /\ RoundTripEnqueued
  /\ cmdList = <<>>
  /\ hostBuf["R"] # <<"old">>

\* C8: the pool has 600 slots; no enqueue ever creates a 601st event or hands
\* out the slot of an event the Invocation still owns, and an enqueue on a
\* full pool ends in the resource fault.
C8_PoolBounded ==
  /\ Len(events) <= SpecifiedPoolSlots
  /\ Cardinality({events[i].event : i \in 1..Len(events)}) = Len(events)
  /\ {events[i].event : i \in 1..Len(events)} = poolUsed
  /\ pc = "fault" => Len(events) = SpecifiedPoolSlots /\ Len(cmdList) = SpecifiedPoolSlots

\* an enqueue on the full pool has failed
C8_Exhausted ==
  /\ pc = "fault"
  /\ Len(events) = SpecifiedPoolSlots

\* C10: the launch call emitted for a ScheduleFunc op has the arguments ctx,
\* kernel, globalX, globalY, globalZ, blockX, blockY, blockZ, where the
\* global size is grid size times block size per dimension and the block
\* size is passed unchanged.
C10_GlobalSize ==
  (oclRes = "success" /\ oclOp.kind = "ScheduleFunc") =>
    LET call == oclOut[Len(oclOut)]
        g == oclOp.grid
        b == oclOp.block
    IN  /\ call.op = "llvm.call"
        /\ call.callee = "oclScheduleFunc"
        /\ Len(call.args) = 8
        /\ call.args[1] = <<"env">>
        /\ call.args[2] = KernelValue
        /\ \A d \in 1..3 :
             /\ call.args[2 + d] = <<"toint", <<"mul", g[d], b[d]>>>>
             /\ Eval(call.args[2 + d]) = g[d][2] * b[d][2]
             /\ call.args[5 + d] = <<"toint", b[d]>>
             /\ Eval(call.args[5 + d]) = b[d][2]

\* a ScheduleFunc op was lowered whose global size differs from its grid
\* size in every dimension
C10_Lowered ==
  /\ oclRes = "success"
  /\ oclOp.kind = "ScheduleFunc"
  /\ \A d \in 1..3 : oclOp.block[d][2] > 1 /\ oclOp.grid[d][2] # oclOp.block[d][2]

\* the calls of one native function among emitted operations: their positions
CallsOf(out, callee) == {t \in 1..Len(out) : out[t].op = "llvm.call" /\ out[t].callee = callee}

\* the steps before step k (1-based) whose launch took buffer b
EarlierUses(k, b) == {j \in 1..(k - 1) : b \in Range(unit[j].args)}

Latest(S) == CHOOSE j \in S : \A x \in S : x <= j

\* the transfers emitted at step k into argument position i (both 1-based)
TransfersInto(k, i) ==
  {t \in CallsOf(lowered[k], "vkCreateMemoryTransferAction") :
     /\ lowered[k][t].args[4] = <<"i64", k - 1>>
     /\ lowered[k][t].args[5] = <<"i64", i - 1>>}

\* argument position i of step k is wired as the claim says: one transfer
\* from the most recent earlier step that used the buffer, none when no
\* earlier step used it
WiredFromEarlier(k, i) ==
  LET b == unit[k].args[i]
      uses == EarlierUses(k, b)
  IN  IF uses = {} THEN TransfersInto(k, i) = {}
      ELSE /\ Cardinality(TransfersInto(k, i)) = 1
           /\ \A t \in TransfersInto(k, i) :
                /\ lowered[k][t].args[2] = <<"i64", Latest(uses) - 1>>
                /\ \E p \in 1..Len(unit[Latest(uses)].args) :
                     /\ unit[Latest(uses)].args[p] = b
                     /\ lowered[k][t].args[3] = <<"i64", p - 1>>

\* C11: lowering step k emits, for an argument whose buffer was most
\* recently used at an earlier step j, exactly one memory-transfer action
\* wired (j, b_j) -> (k, b_k), and none for an argument that no earlier step
\* used; every emitted transfer is one of these.
C11_TransferPerReusedBuffer ==
  \A k \in 1..Len(lowered) :
    /\ \A i \in 1..Len(unit[k].args) : WiredFromEarlier(k, i)
    /\ Cardinality(CallsOf(lowered[k], "vkCreateMemoryTransferAction"))
         = Cardinality({i \in 1..Len(unit[k].args) : EarlierUses(k, unit[k].args[i]) # {}})

\* no launch of the unit takes one buffer value at two argument positions
DistinctArgs ==
  \A k \in 1..Len(unit) : \A i, j \in 1..Len(unit[k].args) :
    unit[k].args[i] = unit[k].args[j] => i = j

\* C11 on units whose launches take pairwise distinct buffers
C11_DistinctArgsWired == DistinctArgs => C11_TransferPerReusedBuffer

\* three launches lowered, the second takes the buffer of the first, and
\* exactly one transfer (0, 0) -> (1, 0) was emitted in total
C11_ThreeOps ==
  /\ Len(lowered) = 3
  /\ unit[1].args = <<"a">> /\ unit[2].args = <<"a">> /\ unit[3].args = <<"b">>
  /\ CallsOf(lowered[1], "vkCreateMemoryTransferAction") = {}
  /\ Cardinality(CallsOf(lowered[2], "vkCreateMemoryTransferAction")) = 1
  /\ CallsOf(lowered[3], "vkCreateMemoryTransferAction") = {}

\* C12: with N kernel-launch ops in the module, each lowered once, the run
\* call is emitted exactly once, while lowering the launch with step index
\* N - 1, after that step's schedule call; no earlier lowering emits it.
C12_RunOnceAtLastStep ==
  /\ scheduleFuncNum = Len(unit)
  /\ \A k \in 1..Len(lowered) :
       LET runs == CallsOf(lowered[k], "vkRun")
           scheds == CallsOf(lowered[k], "vkScheduleFunc")
       IN  IF k = scheduleFuncNum
           THEN /\ Cardinality(runs) = 1
                /\ Cardinality(scheds) = 1
                /\ \A r \in runs, t \in scheds : t < r
           ELSE runs = {}
  /\ oclRes = "done" => Len(lowered) = scheduleFuncNum /\ pScheduleFuncIndex = scheduleFuncNum

\* a module of three launches was lowered completely and the third
\* lowering emitted the run call
C12_ThreeLowered ==
  /\ oclRes = "done"
  /\ Len(unit) = 3
  /\ CallsOf(lowered[3], "vkRun") # {}
  /\ CallsOf(lowered[1], "vkRun") = {} /\ CallsOf(lowered[2], "vkRun") = {}

\* how many declarations of `name` the module holds
Declarations(name) == Cardinality({i \in 1..Len(symbols) : symbols[i] = name})

\* C13: driver-A declaration insertion, applied any number of times to a
\* module that holds any of the 13 native declarations already, leaves
\* exactly one symbol per native name and changes nothing once all are there.
C13_OclDeclarationsOnce ==
  /\ [](pass = "ocl" =>
          /\ \A n \in Range(OclFunctions) : Declarations(n) <= 1
          /\ oclRes = "finished" => \A n \in Range(OclFunctions) : Declarations(n) = 1)
  /\ [][(pass = "ocl" /\ oclRes = "done" /\ Len(symbols) = Len(OclFunctions))
          => symbols' = symbols]_vars

\* the driver-A declarations were inserted into a module that already held
\* the last one and not the first: one symbol per name
C13_InsertedIntoPartial ==
  /\ pass = "ocl"
  /\ oclRes = "finished"
  /\ Len(symbols) = Len(OclFunctions)
  /\ symbols[1] = "oclWait"
  /\ symbols[2] = "oclCreate"

\* C14: driver-B declaration insertion never leaves more than one
\* declaration per native function name, and exactly one after the pass.
C14_VkDeclarationsOnce ==
  pass = "vulkan" =>
    /\ \A n \in Range(VkFunctions) : Declarations(n) <= 1
    /\ oclRes = "finished" => \A n \in Range(VkFunctions) : Declarations(n) = 1

\* the calls among the emitted operations, in emission order
Calls(out) == SelectSeq(out, LAMBDA e : e.op = "llvm.call")

\* C20: driver-A lowering of a ScheduleFunc with N kernel arguments and M
\* dependency events emits one create-kernel call, then N set-arg calls with
\* indices 0..N-1 ascending, then M add-dependency calls in operand order,
\* then one launch call, and no other call.
C20_OclCallOrder ==
  oclRes = "success" =>
    LET c == Calls(oclOut)
        N == oclOp.nargs
        M == oclOp.ndeps
    IN  /\ Len(c) = N + M + 2
        /\ c[1].callee = "oclCreateKernel"
        /\ \A i \in 1..N :
             /\ c[1 + i].callee = "oclSetKernelArg"
             /\ c[1 + i].args[2] = <<"idx", i - 1>>
             /\ c[1 + i].args[3] = <<"devmem", <<"buf", i - 1>>>>
        /\ \A j \in 1..M :
             /\ c[1 + N + j].callee = "oclAddKernelDep"
             /\ c[1 + N + j].args[2] = <<"ev", j>>
        /\ c[N + M + 2].callee = "oclScheduleFunc"
        /\ oclOut[Len(oclOut)] = c[N + M + 2]

\* a launch with two kernel arguments and two dependency events was lowered
C20_TwoArgsTwoDeps ==
  /\ oclRes = "success"
  /\ oclOp.nargs = 2
  /\ oclOp.ndeps = 2
  /\ Len(Calls(oclOut)) = 6

\* the number of fixed leading operands of a variadic op
NonVarArgs(kind) ==
  IF kind \in {"ScheduleRead", "ScheduleWrite"} THEN 3
  ELSE IF kind = "ScheduleBarrier" THEN 1 ELSE 0

\* the operand a call argument carries: itself, or the operand whose memory
\* pointer was extracted
OperandOf(arg) == IF arg[1] \in {"hostmem", "devmem"} THEN arg[2] ELSE arg

\* C15: the call that lowers a variadic op with n operands, f of them
\* fixed, has n + 1 arguments: the f fixed operands in their positions, a
\* constant n - f, then the other n - f operands in their order.
C15_VariadicLayout ==
  (oclRes = "success" /\ oclOp.kind \in VariadicKinds) =>
    LET n == Len(oclOp.operands)
        f == NonVarArgs(oclOp.kind)
        c == Calls(oclOut)
    IN  /\ Len(c) = 1
        /\ Len(c[1].args) = n + 1
        /\ \A i \in 1..f : OperandOf(c[1].args[i]) = oclOp.operands[i]
        /\ c[1].args[f + 1][1] \in {"i32", "idx"}
        /\ c[1].args[f + 1][2] = n - f
        /\ \A i \in (f + 1)..n : c[1].args[i + 1] = oclOp.operands[i]

\* driver A lowered a barrier with two dependency events
C15_BarrierTwoEvents ==
  /\ oclRes = "success"
  /\ pass = "ocl"
  /\ oclOp.kind = "ScheduleBarrier"
  /\ Len(oclOp.operands) = 3

\* C16 (as stated): a lowering pattern that reports failure has emitted
\* no operation for the op.
C16_FailureBeforeEmission == oclRes = "failure" => oclOut = <<>>

\* a driver-B launch whose binary and kernel are serialized
VkKernelFound(op) ==
  op.kind = "ScheduleFunc" /\ op.binaryName \in DOMAIN modulesMap
    /\ op.kernelName \in modulesMap[op.binaryName]

\* C16 (amended): a failure return comes before the first emission except in
\* two places: driver-A Alloc fails on the element type after it emitted the
\* size computation and the oclAlloc call, and driver-B ScheduleFunc fails on
\* a non-buffer argument after it emitted pointers, grid constants and the
\* bindings before that argument (but no launch action).
C16_FailureEmissions ==
  oclRes = "failure" =>
    /\ (pass = "ocl" /\ oclOp.kind = "Alloc") =>
         (Len(Calls(oclOut)) = 1 /\ Calls(oclOut)[1].callee = "oclAlloc")
    /\ (pass = "vulkan" /\ VkKernelFound(oclOp)) =>
         /\ oclOut # <<>>
         /\ CallsOf(oclOut, "vkCreateLaunchKernelAction") = {}
         /\ \A t \in 1..Len(Calls(oclOut)) : Calls(oclOut)[t].callee = "vkBindBuffer"
    /\ (~(pass = "ocl" /\ oclOp.kind = "Alloc") /\ ~(pass = "vulkan" /\ VkKernelFound(oclOp)))
         => oclOut = <<>>

\* driver-A Alloc failed after emitting the allocation call
C16_AllocFailedAfterCall ==
  /\ oclRes = "failure"
  /\ pass = "ocl"
  /\ oclOp.kind = "Alloc"
  /\ oclOut # <<>>

\* C17: driver-B lowering of a launch with a grid size that is no
\* compile-time constant ends in a lowering failure without a launch action.
C17_NonConstantGridFails ==
  (/\ pass = "vulkan"
   /\ oclOp.kind = "ScheduleFunc"
   /\ oclRes # "pending"
   /\ \E d \in 1..3 : ~IsConstant(oclOp.grid[d]))
  => /\ oclRes = "failure"
     /\ CallsOf(oclOut, "vkCreateLaunchKernelAction") = {}

\* C18: a pattern rewrites an op only if the op's runtime tag is the
\* runtime of the pattern's driver.
C18_TagSelectsLowering == oclRes = "success" => oclOp.runtime = PassRuntime(pass)

\* C19: a successful driver-B lowering of a launch with N buffer arguments
\* emits N bind-buffer calls, the i-th for argument i at descriptor set 0
\* and binding index i, in ascending order, all before the one
\* create-launch-kernel-action call.
C19_BindBuffers ==
  (oclRes = "success" /\ pass = "vulkan" /\ oclOp.kind = "ScheduleFunc") =>
    LET c == Calls(oclOut)
        N == Len(oclOp.args)
    IN  /\ Cardinality(CallsOf(oclOut, "vkBindBuffer")) = N
        /\ Cardinality(CallsOf(oclOut, "vkCreateLaunchKernelAction")) = 1
        /\ \A i \in 1..N :
             /\ c[i].callee = "vkBindBuffer"
             /\ c[i].args[2] = <<"i32", 0>>
             /\ c[i].args[3] = <<"i32", i - 1>>
             /\ c[i].args[5] = <<"raw", oclOp.args[i]>>
        /\ c[N + 1].callee = "vkCreateLaunchKernelAction"

\* driver B lowered a launch with two buffer arguments
C19_TwoBuffersBound ==
  /\ oclRes = "success"
  /\ pass = "vulkan"
  /\ oclOp.kind = "ScheduleFunc"
  /\ Len(oclOp.args) = 2
  /\ Cardinality(CallsOf(oclOut, "vkBindBuffer")) = 2

\* how many times the teardown loop has deleted Memory Object m: once per
\* entry of the retired list, once the loop has run
DeleteCount(m) ==
  IF pc \in {"dtor_events", "destroyed", "fault"}
  THEN Cardinality({i \in 1..Len(memories) : memories[i] = m})
  ELSE 0

\* C21: every kernel created by createKernelFromIL is recorded by the
\* Invocation and is destroyed by the time the teardown completes.
C21_KernelsOwned ==
  \A k \in 1..Len(kernels) :
    /\ k \in Range(invocationKernels)
    /\ pc = "destroyed" => k \in destroyedKernels

\* C27: each Memory Object is released at most once, also when
\* deallocateMemory was called on it more than once.
C27_ReleasedAtMostOnce == \A m \in 1..Len(memObjs) : DeleteCount(m) <= 1

\* C28: when the teardown completes, every Memory Object returned by
\* allocateMemory has been released, retired or not.
C28_AllReleased == pc = "destroyed" => \A m \in 1..Len(memObjs) : m \in released

\* the LevelZeroActionKind of the Event a command's enqueue call wraps
KindOf(op) ==
  IF op = "read" THEN "Read"
  ELSE IF op = "write" THEN "Write"
  ELSE IF op = "kernel" THEN "Kernel" ELSE "Barrier"

EventHandles == {events[i].event : i \in 1..Len(events)}

\* C29: every enqueue call takes one pool slot and appends one Event of
\* its kind to the event list; nothing else changes the list, flush()
\* included, so until teardown the slots in use are those of the listed
\* events, one each; teardown destroys them all.
C29_EventAccounting ==
  /\ [](pc # "destroyed" =>
          /\ EventHandles = poolUsed
          /\ Cardinality(poolUsed) = Len(events))
  /\ [](pc = "destroyed" => poolUsed = {})
  /\ [][Len(cmdList') = Len(cmdList) + 1 =>
          /\ events' = Append(events, events'[Len(events')])
          /\ events'[Len(events')].kind = KindOf(cmdList'[Len(cmdList')].op)
          /\ events'[Len(events')].event = cmdList'[Len(cmdList')].signal
          /\ events'[Len(events')].event \notin poolUsed
          /\ poolUsed' = poolUsed \cup {events'[Len(events')].event}]_vars
  /\ [][Len(cmdList') # Len(cmdList) + 1 => events' = events]_vars

\* the teardown has destroyed the events of two commands of different
\* kinds that were flushed before
C29_FlushedAndDestroyed ==
  /\ pc = "destroyed"
  /\ Len(events) = 2
  /\ events[1].kind # events[2].kind
  /\ cmdList = <<>>
  /\ EventHandles \subseteq signaled
  /\ poolUsed = {}

\* the native events whose commands are still in the command list, not
\* submitted by any flush()
Unflushed == {cmdList[i].signal : i \in 1..Len(cmdList)}

\* C30 as stated: wait(events) eventually returns for every list of events
\* of the Invocation, flushed or not.
C30_WaitReturns == (pc = "wait") ~> (pc = "idle")

\* C30, amended: wait(events) returns only after every listed event has
\* completed; it eventually returns when the commands of all listed events
\* were submitted by a flush(), and it never returns while a listed event's
\* command is still unflushed.
C30_WaitFlushed ==
  /\ [][(pc = "wait" /\ pc' = "idle") => Range(waiting) \subseteq signaled]_vars
  /\ (pc = "wait" /\ Range(waiting) \cap Unflushed = {}) ~> (pc = "idle")
  /\ []((pc = "wait" /\ Range(waiting) \cap Unflushed # {}) => [](pc = "wait"))

\* the host waits on two events whose commands a flush() has executed
C30_WaitOnFlushed ==
  /\ pc = "wait"
  /\ Len(waiting) = 2
  /\ waiting[1] # waiting[2]
  /\ Range(waiting) \subseteq signaled
  /\ cmdList = <<>>

\* what the lowered launch ops were replaced by, the one just rewritten included
Outputs == Range(lowered) \cup (IF oclRes = "success" THEN {oclOut} ELSE {})

\* C22 as stated: in the calls emitted for one launch op every
\* create-memory-transfer-action call precedes the
\* create-launch-kernel-action call.
C22_TransfersBeforeLaunchAction ==
  \A out \in Outputs :
    \A t \in CallsOf(out, "vkCreateMemoryTransferAction"),
       c \in CallsOf(out, "vkCreateLaunchKernelAction") : t < c

\* C22, amended: the calls emitted for one launch op hold one
\* create-launch-kernel-action, then one set-launch-kernel-action, then the
\* memory-transfer actions into this step, then the one call that schedules
\* the launch.
C22_TransfersBeforeSchedule ==
  \A out \in Outputs :
    /\ Cardinality(CallsOf(out, "vkCreateLaunchKernelAction")) = 1
    /\ Cardinality(CallsOf(out, "vkSetLaunchKernelAction")) = 1
    /\ Cardinality(CallsOf(out, "vkScheduleFunc")) = 1
    /\ \A c \in CallsOf(out, "vkCreateLaunchKernelAction"),
          a \in CallsOf(out, "vkSetLaunchKernelAction"),
          f \in CallsOf(out, "vkScheduleFunc") :
         /\ c < a
         /\ a < f
         /\ \A t \in CallsOf(out, "vkCreateMemoryTransferAction") : a < t /\ t < f

\* a launch was lowered with two transfer actions into it
C22_TwoTransfers ==
  \E k \in 1..Len(lowered) :
    Cardinality(CallsOf(lowered[k], "vkCreateMemoryTransferAction")) = 2

\* the last position of buffer b in an argument list
LastPosition(args, b) == Latest({i \in 1..Len(args) : args[i] = b})

\* the launches lowered so far that took buffer b
Users(b) == {k \in 1..pScheduleFuncIndex : b \in Range(unit[k].args)}

\* C23: after any sequence of successful launch lowerings the producer map
\* holds exactly the buffers that were arguments of a lowered launch, each
\* with the step index of the most recent launch that took it and its
\* (last) argument position there.
C23_ProducerMap ==
  \A b \in Buffers :
    IF Users(b) = {}
    THEN b \notin DOMAIN pBufferMap
    ELSE /\ b \in DOMAIN pBufferMap
         /\ pBufferMap[b] = <<Latest(Users(b)) - 1,
                              LastPosition(unit[Latest(Users(b))].args, b) - 1>>

\* buffer a was taken by the first and the third launch at different
\* positions: the entry of the first was overwritten
C23_Overwritten ==
  /\ oclRes = "done"
  /\ Len(unit) = 3
  /\ unit[1].args = <<"a">>
  /\ unit[2].args = <<"b">>
  /\ unit[3].args = <<"b", "a">>
  /\ pBufferMap["a"] = <<2, 1>>

\* the calls that build the graph
BuildCalls ==
  {"vkBindBuffer", "vkCreateLaunchKernelAction", "vkSetLaunchKernelAction",
   "vkCreateMemoryTransferAction"}

\* C24: in the emitted program the run call comes after every bind-buffer,
\* create-launch-kernel-action, set-launch-kernel-action and
\* create-memory-transfer-action call of every launch op of the module, and
\* there is one run call.
C24_RunAfterBuild ==
  /\ \A k \in 1..Len(lowered) :
       \A r \in CallsOf(lowered[k], "vkRun") :
         /\ k = Len(unit)
         /\ \A c \in BuildCalls : \A t \in CallsOf(lowered[k], c) : t < r
  /\ oclRes = "done" => Cardinality(CallsOf(lowered[Len(lowered)], "vkRun")) = 1

\* a module of two launches was lowered; the second has a transfer action
\* and the run call
C24_BuiltThenRun ==
  /\ oclRes = "done"
  /\ Len(lowered) = 2
  /\ CallsOf(lowered[2], "vkCreateMemoryTransferAction") # {}
  /\ CallsOf(lowered[2], "vkRun") # {}

\* C25: every memory-transfer action has a producer step index strictly
\* smaller than its consumer step index.
C25_NoSelfTransfer ==
  \A out \in Outputs :
    \A t \in CallsOf(out, "vkCreateMemoryTransferAction") :
      out[t].args[2][2] < out[t].args[4][2]

\* C26: a failed launch lowering leaves the step counter and the producer
\* map as they were; the counter starts at 0, grows by one per successful
\* lowering and equals the number of launches lowered so far.
C26_FailureFrame ==
  /\ [][(oclRes = "pending" /\ oclRes' = "failure") =>
          /\ pScheduleFuncIndex' = pScheduleFuncIndex
          /\ pBufferMap' = pBufferMap]_vars
  /\ [][(oclRes = "pending" /\ oclRes' = "success") =>
          pScheduleFuncIndex' = pScheduleFuncIndex + 1]_vars
  /\ [](pScheduleFuncIndex = Len(lowered) + (IF oclRes = "success" THEN 1 ELSE 0))

\* the second launch failed on a non-buffer argument after the first was lowered
C26_FailedAfterSuccess ==
  /\ oclRes = "failure"
  /\ Len(lowered) = 1
  /\ pScheduleFuncIndex = 1
  /\ DOMAIN pBufferMap # {}
  /\ oclOut # <<>>

\* the position in the event list of the Event that wraps native handle h
EventIndex(h) == CHOOSE j \in 1..Len(events) : events[j].event = h

\* every wait event of command c was created by an enqueue before c's own
EarlierDependencies(c) ==
  \A d \in Range(c.deps) :
    /\ d \in EventHandles
    /\ EventIndex(d) < EventIndex(c.signal)

\* C31: a dependency of a command names only an event of an earlier
\* enqueue, so the commands of the list cannot wait on each other in a
\* cycle, and with the device making progress flush() returns, with every
\* command of the list completed.
C31_FlushTerminates ==
  /\ [](/\ \A i \in 1..Len(cmdList) : EarlierDependencies(cmdList[i])
        /\ \A i \in 1..Len(devQueue) : EarlierDependencies(devQueue[i].cmd))
  /\ (pc = "flush") ~> (pc = "idle" /\ cmdList = <<>> /\ EventHandles \subseteq signaled)

\* flush() has submitted a list of commands that depend on each other in a
\* chain; none has started
C31_ChainSubmitted ==
  /\ pc = "flush"
  /\ Len(devQueue) = MaxFlushEvents
  /\ \A i \in 1..Len(devQueue) : devQueue[i].st = "submitted"
  /\ \A i \in 2..Len(devQueue) : devQueue[i].cmd.deps = <<devQueue[i - 1].cmd.signal>>

\* C32: a pass that has signalled failure, after a failed serialization
\* ("aborted") or a failed conversion ("failure"), inserts no native
\* function declaration into the module.
C32_NoDeclarationsAfterFailure ==
  [][(oclRes \in {"aborted", "failure"}) => symbols' = symbols]_vars

====
